---- MODULE Spec2Model ----
(***************************************************************************)
(* Order matching engine: the per-symbol order book (price-indexed levels  *)
(* with FIFO queues and an id-map), the limit and market matching loops of *)
(* the Matcher, the cancel paths, and the two middlewares (rate limiter and *)
(* service availability).  Operations are modelled as they are written in  *)
(* src/src/engine/matcher.go, src/src/engine/order.go, src/src/handlers,   *)
(* src/src/middleware/ratelimit.go and service_availability.go.            *)
(***************************************************************************)
EXTENDS Integers, Sequences, FiniteSets, TLC

\* Bounds of the model.
MaxOrders == 3
MaxPrice == 2
MaxQty == 2

Symbols == {"AAPL"}
Sides == {"BUY", "SELL"}
OrderIds == 1..MaxOrders
Prices == 1..MaxPrice
Quantities == 1..MaxQty

VARIABLES
    OrderBooks,   \* Matcher.OrderBooks: symbol -> order book
    ord,          \* the Order objects, by id (the books hold pointers to them)
    nextOrderID,  \* the next order id the caller mints
    last,         \* the last call and what it returned
    hist,         \* what the requests of the HTTP handlers did to each id
    proc,         \* the calls in progress, one goroutine each: position, locals
    batch,        \* the books and orders when the calls in progress began
    rl,           \* the RateLimiter: windowDuration and counters
    sa,           \* the ServiceAvailability and the requests in its middleware
    now           \* time.Now(), in ticks

\* the middleware
mw == <<rl, sa, now>>

vars == <<OrderBooks, ord, nextOrderID, last, hist, proc, batch, rl, sa, now>>

----------------------------------------------------------------------------
(* Order (order.go) *)

NewOrder(id, symbol, side, orderType, price, quantity) ==
    [ID |-> id, Symbol |-> symbol, Side |-> side, Type |-> orderType,
     Price |-> price, Quantity |-> quantity, FilledQuantity |-> 0,
     Status |-> "ACCEPTED"]

RemainingQuantity(o) == o.Quantity - o.FilledQuantity

IsFilled(o) == o.FilledQuantity >= o.Quantity

Fill(o, quantity) ==
    LET newFilled == o.FilledQuantity + quantity
    IN  [o EXCEPT !.FilledQuantity = newFilled,
                  !.Status = IF newFilled >= o.Quantity THEN "FILLED"
                             ELSE "PARTIAL_FILL"]

SetStatus(o, status) == [o EXCEPT !.Status = status]

----------------------------------------------------------------------------
(* OrderBook.  Bids and Asks are the two price indexes: a function from    *)
(* the prices present in the tree to the queue (sequence of order ids) of  *)
(* that level.  Orders is the id-map, the set of ids it holds.             *)

NewOrderBook(symbol) ==
    [Symbol |-> symbol, Bids |-> <<>>, Asks |-> <<>>, Orders |-> {}]

MinOf(S) == CHOOSE x \in S : \A y \in S : x <= y
MaxOf(S) == CHOOSE x \in S : \A y \in S : x >= y

\* btree.ReplaceOrInsert / btree.Delete on one price index
TreePut(tree, price, queue) ==
    [p \in (DOMAIN tree) \cup {price} |-> IF p = price THEN queue ELSE tree[p]]

TreeDelete(tree, price) == [p \in (DOMAIN tree) \ {price} |-> tree[p]]

TreeOf(ob, side) == IF side = "BUY" THEN ob.Bids ELSE ob.Asks

WithTree(ob, side, tree) ==
    IF side = "BUY" THEN [ob EXCEPT !.Bids = tree] ELSE [ob EXCEPT !.Asks = tree]

\* PriceLevel.Orders read through a *PriceLevel the caller holds.  A level
\* that was deleted from the tree is empty when it is deleted.
LevelOrders(ob, side, price) ==
    IF price \in DOMAIN TreeOf(ob, side) THEN TreeOf(ob, side)[price] ELSE <<>>

\* assignment to PriceLevel.Orders through a held *PriceLevel
SetLevelOrders(ob, side, price, queue) ==
    IF price \in DOMAIN TreeOf(ob, side)
    THEN WithTree(ob, side, TreePut(TreeOf(ob, side), price, queue))
    ELSE ob

RECURSIVE SumRemaining(_, _)
SumRemaining(queue, heap) ==
    IF queue = <<>> THEN 0
    ELSE RemainingQuantity(heap[Head(queue)]) + SumRemaining(Tail(queue), heap)

\* the queue without the first occurrence of id
RECURSIVE RemoveFirst(_, _)
RemoveFirst(queue, id) ==
    IF queue = <<>> THEN <<>>
    ELSE IF Head(queue) = id THEN Tail(queue)
    ELSE <<Head(queue)>> \o RemoveFirst(Tail(queue), id)

\* AddOrder putting the order at the head of its level
AddOrderAtHead(ob, heap, id) ==
    LET order == heap[id]
        tree == TreeOf(ob, order.Side)
        queue == IF order.Price \in DOMAIN tree THEN tree[order.Price] ELSE <<>>
    IN  WithTree([ob EXCEPT !.Orders = @ \cup {id}], order.Side,
                 TreePut(tree, order.Price, <<id>> \o queue))

AddOrder(ob, heap, id) ==
    LET order == heap[id]
        tree == TreeOf(ob, order.Side)
        queue == IF order.Price \in DOMAIN tree THEN tree[order.Price] ELSE <<>>
    IN  WithTree([ob EXCEPT !.Orders = @ \cup {id}], order.Side,
                 TreePut(tree, order.Price, Append(queue, id)))

RemoveOrder(ob, heap, orderID) ==
    IF orderID \notin ob.Orders THEN [ob |-> ob, ret |-> FALSE]
    ELSE LET order == heap[orderID]
             tree == TreeOf(ob, order.Side)
         IN  IF order.Price \notin DOMAIN tree
             THEN [ob |-> [ob EXCEPT !.Orders = @ \ {orderID}], ret |-> FALSE]
             ELSE LET queue == RemoveFirst(tree[order.Price], orderID)
                      tree2 == IF Len(queue) = 0
                               THEN TreeDelete(tree, order.Price)
                               ELSE TreePut(tree, order.Price, queue)
                  IN  [ob |-> [WithTree(ob, order.Side, tree2)
                                  EXCEPT !.Orders = @ \ {orderID}],
                       ret |-> TRUE]

NoBest == [price |-> 0, quantity |-> 0, ok |-> FALSE]

GetBestBid(ob, heap) ==
    IF DOMAIN ob.Bids = {} THEN NoBest
    ELSE LET price == MaxOf(DOMAIN ob.Bids)
         IN  IF Len(ob.Bids[price]) = 0 THEN NoBest
             ELSE [price |-> price,
                   quantity |-> SumRemaining(ob.Bids[price], heap),
                   ok |-> TRUE]

GetBestAsk(ob, heap) ==
    IF DOMAIN ob.Asks = {} THEN NoBest
    ELSE LET price == MinOf(DOMAIN ob.Asks)
         IN  IF Len(ob.Asks[price]) = 0 THEN NoBest
             ELSE [price |-> price,
                   quantity |-> SumRemaining(ob.Asks[price], heap),
                   ok |-> TRUE]

GetOrder(ob, orderID) == orderID \in ob.Orders

\* the order of the two price indexes: PriceLevelItem.Less puts the higher
\* bid first, PriceLevelItemAscending.Less the lower ask
LessAscending(side, a, b) ==
    a < b

Less(side, a, b) ==
    IF side = "BUY" THEN a > b ELSE a < b

\* the first item btree.Ascend visits among the prices in rest
First(side, rest) ==
    CHOOSE x \in rest : \A y \in rest \ {x} : Less(side, x, y)

\* btree.Ascend with the callback of GetOrderBookSnapshot: one entry per
\* level in the order of Less, until depth entries were appended
RECURSIVE Ascend(_, _, _, _, _, _)
Ascend(tree, side, heap, depth, rest, out) ==
    IF rest = {} \/ Len(out) >= depth THEN out
    ELSE Ascend(tree, side, heap, depth, rest \ {First(side, rest)},
                Append(out, [Price |-> First(side, rest),
                             Quantity |-> SumRemaining(tree[First(side, rest)],
                                                       heap)]))

GetOrderBookSnapshot(ob, heap, depth) ==
    [bids |-> Ascend(ob.Bids, "BUY", heap, depth, DOMAIN ob.Bids, <<>>),
     asks |-> Ascend(ob.Asks, "SELL", heap, depth, DOMAIN ob.Asks, <<>>)]

\* the depth GetOrderBook uses when the request names none
defaultDepth == 10

----------------------------------------------------------------------------
(* Matcher *)

GetOrCreateOrderBook(books, symbol) ==
    IF symbol \in DOMAIN books THEN books
    ELSE [s \in (DOMAIN books) \cup {symbol} |->
             IF s = symbol THEN NewOrderBook(symbol) ELSE books[s]]

\* NewTrade printing at the incoming order's price
NewTradeAtTakerPrice(order, restingOrder, executionPrice, executionQty) ==
    [Price |-> order.Price, Quantity |-> executionQty,
     BuyOrderID |-> IF order.Side = "BUY" THEN order.ID ELSE restingOrder.ID,
     SellOrderID |-> IF order.Side = "BUY" THEN restingOrder.ID ELSE order.ID]

NewTrade(order, restingOrder, executionPrice, executionQty) ==
    [Price |-> executionPrice, Quantity |-> executionQty,
     BuyOrderID |-> IF order.Side = "BUY" THEN order.ID ELSE restingOrder.ID,
     SellOrderID |-> IF order.Side = "BUY" THEN restingOrder.ID ELSE order.ID]

\* the side of the book an incoming order of this side matches against
Opposing(side) == IF side = "BUY" THEN "SELL" ELSE "BUY"

MinQty(a, b) == IF a > b THEN b ELSE a

\* The state of one matching call, st: the book (ob), the order objects
\* (ord), remainingQty, and the Trades and FilledQuantity of the result.
\* id is the incoming order, rid the resting order at the head of the level.
StartMatch(ob, heap, id) ==
    [ob |-> ob, ord |-> heap, remainingQty |-> heap[id].Quantity,
     Trades |-> <<>>, FilledQuantity |-> 0]

\* the best level of the side the order matches against
BestOpposing(st, id) ==
    IF st.ord[id].Side = "BUY" THEN GetBestAsk(st.ob, st.ord)
    ELSE GetBestBid(st.ob, st.ord)

\* the queue of the level the call walks
WalkedLevel(st, id, bestPrice) ==
    LevelOrders(st.ob, Opposing(st.ord[id].Side), bestPrice)

\* bestPriceLevel.Orders = bestPriceLevel.Orders[1:] (or [:0])
DropHead(st, id, bestPrice) ==
    [st EXCEPT !.ob = SetLevelOrders(@, Opposing(st.ord[id].Side), bestPrice,
                                     Tail(WalkedLevel(st, id, bestPrice)))]

\* Asks.Delete / Bids.Delete of the walked level
DeleteLevel(st, id, bestPrice) ==
    [st EXCEPT !.ob = WithTree(@, Opposing(st.ord[id].Side),
                               TreeDelete(TreeOf(@, Opposing(st.ord[id].Side)),
                                          bestPrice))]

\* the trade is appended and only the incoming order is filled
LimitExecuteTakerOnly(st, id, rid, bestPrice, executionQty) ==
    [st EXCEPT !.ord = [@ EXCEPT ![id] = Fill(@, executionQty)],
               !.Trades = Append(@, NewTrade(st.ord[id], st.ord[rid],
                                             bestPrice, executionQty)),
               !.FilledQuantity = @ + executionQty,
               !.remainingQty = RemainingQuantity(Fill(st.ord[id], executionQty))]

\* the trade is appended and both orders are filled; matchLimitOrder reads
\* remainingQty back from the incoming order
LimitExecute(st, id, rid, bestPrice, executionQty) ==
    [st EXCEPT !.ord = [@ EXCEPT ![id] = Fill(@, executionQty),
                                 ![rid] = Fill(@, executionQty)],
               !.Trades = Append(@, NewTrade(st.ord[id], st.ord[rid],
                                             bestPrice, executionQty)),
               !.FilledQuantity = @ + executionQty,
               !.remainingQty = RemainingQuantity(Fill(st.ord[id], executionQty))]

\* orderBook.RemoveOrder(restingOrder.ID) when the resting order is filled
RemoveIfFilled(st, rid) ==
    IF IsFilled(st.ord[rid])
    THEN [st EXCEPT !.ob = RemoveOrder(@, st.ord, rid).ob]
    ELSE st

RECURSIVE LimitLevelLoop(_, _, _)

\* matchLimitOrder, the end of one pass of the inner loop: the level is
\* deleted when it is empty, otherwise the loop goes on
LimitLevelCheck(st, id, bestPrice) ==
    IF Len(WalkedLevel(st, id, bestPrice)) = 0
    THEN DeleteLevel(st, id, bestPrice)
    ELSE LimitLevelLoop(st, id, bestPrice)

\* matchLimitOrder after the fills: the loop is left when the incoming order
\* is complete, before any removal of the resting order
LimitAfterFill(st, id, rid, bestPrice) ==
    IF st.remainingQty <= 0 \/ IsFilled(st.ord[id]) THEN st
    ELSE LimitLevelCheck(RemoveIfFilled(st, rid), id, bestPrice)

LimitTrade(st, id, rid, bestPrice, executionQty) ==
    IF executionQty <= 0 THEN st
    ELSE LimitAfterFill(LimitExecute(st, id, rid, bestPrice, executionQty),
                        id, rid, bestPrice)

LimitResting(st, id, rid, bestPrice) ==
    IF RemainingQuantity(st.ord[rid]) <= 0
    THEN LimitLevelLoop(DropHead(st, id, bestPrice), id, bestPrice)
    ELSE LimitTrade(st, id, rid, bestPrice,
                    MinQty(st.remainingQty, RemainingQuantity(st.ord[rid])))

\* matchLimitOrder, the inner loop over one price level
LimitLevelLoop(st, id, bestPrice) ==
    IF ~(st.remainingQty > 0 /\ ~IsFilled(st.ord[id])) THEN st
    ELSE IF Len(WalkedLevel(st, id, bestPrice)) = 0 THEN st
    ELSE LimitResting(st, id, WalkedLevel(st, id, bestPrice)[1], bestPrice)

RECURSIVE LimitWalk(_, _)

LimitNextLevel(st, id) ==
    IF st.remainingQty <= 0 THEN st ELSE LimitWalk(st, id)

LimitCross(st, id, best) ==
    IF ~best.ok THEN st
    ELSE IF st.ord[id].Side = "BUY" /\ st.ord[id].Price < best.price THEN st
    ELSE IF st.ord[id].Side = "SELL" /\ st.ord[id].Price > best.price THEN st
    ELSE LimitNextLevel(LimitLevelLoop(st, id, best.price), id)

\* matchLimitOrder, the outer loop over the price levels
LimitWalk(st, id) ==
    IF ~(st.remainingQty > 0) THEN st
    ELSE LimitCross(st, id, BestOpposing(st, id))

\* LimitStatus reporting a part fill as Accepted
LimitStatusNoPartial(st) ==
    IF st.remainingQty > 0 THEN "ACCEPTED" ELSE "FILLED"

LimitStatus(st) ==
    IF st.FilledQuantity = 0 THEN "ACCEPTED"
    ELSE IF st.remainingQty > 0 THEN "PARTIAL_FILL"
    ELSE "FILLED"

\* matchLimitOrder after the walk: the status, and AddOrder of the residual
LimitResult(st, id) ==
    [ob |-> IF LimitStatus(st) = "FILLED" THEN st.ob
            ELSE AddOrder(st.ob, st.ord, id),
     ord |-> st.ord, err |-> "",
     result |-> [Status |-> LimitStatus(st),
                 FilledQuantity |-> st.FilledQuantity,
                 RemainingQuantity |-> st.remainingQty, Trades |-> st.Trades],
     Requested |-> 0, Available |-> 0]

matchLimitOrder(ob, heap, id) ==
    LimitResult(LimitWalk(StartMatch(ob, heap, id), id), id)

\* matchMarketOrder, the liquidity pre-check: the remaining quantity summed
\* over every level of one price index
RECURSIVE TotalAvailable(_, _)
TotalAvailable(tree, heap) ==
    IF DOMAIN tree = {} THEN 0
    ELSE SumRemaining(tree[MinOf(DOMAIN tree)], heap)
           + TotalAvailable(TreeDelete(tree, MinOf(DOMAIN tree)), heap)

\* the trade and the fills without result.FilledQuantity += executionQty
MarketExecuteUncounted(st, id, rid, bestPrice, executionQty) ==
    [st EXCEPT !.ord = [@ EXCEPT ![id] = Fill(@, executionQty),
                                 ![rid] = Fill(@, executionQty)],
               !.Trades = Append(@, NewTrade(st.ord[id], st.ord[rid],
                                             bestPrice, executionQty)),
               !.remainingQty = @ - executionQty]

\* matchMarketOrder counts remainingQty down itself
MarketExecute(st, id, rid, bestPrice, executionQty) ==
    [st EXCEPT !.ord = [@ EXCEPT ![id] = Fill(@, executionQty),
                                 ![rid] = Fill(@, executionQty)],
               !.Trades = Append(@, NewTrade(st.ord[id], st.ord[rid],
                                             bestPrice, executionQty)),
               !.FilledQuantity = @ + executionQty,
               !.remainingQty = @ - executionQty]

\* bestPriceLevel.Orders = bestPriceLevel.Orders[1:] (or [:0]) after the
\* RemoveOrder of the filled resting order
DropHeadAgain(st, id, bestPrice) ==
    IF Len(WalkedLevel(st, id, bestPrice)) > 1 THEN DropHead(st, id, bestPrice)
    ELSE [st EXCEPT !.ob = SetLevelOrders(@, Opposing(st.ord[id].Side),
                                          bestPrice, <<>>)]

\* matchMarketOrder: the filled resting order is removed by RemoveOrder and
\* the head of the level is sliced off after it
MarketRemoveIfFilled(st, id, rid, bestPrice) ==
    IF IsFilled(st.ord[rid])
    THEN DropHeadAgain(RemoveIfFilled(st, rid), id, bestPrice)
    ELSE st

RECURSIVE MarketLevelLoop(_, _, _)

MarketLevelCheck(st, id, bestPrice) ==
    IF st.remainingQty <= 0 THEN st
    ELSE IF Len(WalkedLevel(st, id, bestPrice)) = 0
    THEN DeleteLevel(st, id, bestPrice)
    ELSE MarketLevelLoop(st, id, bestPrice)

MarketTrade(st, id, rid, bestPrice, executionQty) ==
    MarketLevelCheck(
        MarketRemoveIfFilled(MarketExecute(st, id, rid, bestPrice, executionQty),
                             id, rid, bestPrice),
        id, bestPrice)

MarketResting(st, id, rid, bestPrice) ==
    IF RemainingQuantity(st.ord[rid]) <= 0
    THEN MarketLevelLoop(DropHead(st, id, bestPrice), id, bestPrice)
    ELSE MarketTrade(st, id, rid, bestPrice,
                     MinQty(st.remainingQty, RemainingQuantity(st.ord[rid])))

\* matchMarketOrder, the inner loop over one price level
MarketLevelLoop(st, id, bestPrice) ==
    IF ~(st.remainingQty > 0) THEN st
    ELSE IF Len(WalkedLevel(st, id, bestPrice)) = 0 THEN st
    ELSE MarketResting(st, id, WalkedLevel(st, id, bestPrice)[1], bestPrice)

RECURSIVE MarketWalk(_, _)

MarketLevel(st, id, best) ==
    IF ~best.ok THEN st
    ELSE MarketWalk(MarketLevelLoop(st, id, best.price), id)

\* matchMarketOrder, the outer loop over the price levels
MarketWalk(st, id) ==
    IF ~(st.remainingQty > 0) THEN st
    ELSE MarketLevel(st, id, BestOpposing(st, id))

NilResult ==
    [Status |-> "nil", FilledQuantity |-> 0, RemainingQuantity |-> 0,
     Trades |-> <<>>]

\* return nil, &InsufficientLiquidityError{Requested, Available}
MarketRejected(ob, heap, requested, available) ==
    [ob |-> ob, ord |-> heap, err |-> "InsufficientLiquidity",
     result |-> NilResult, Requested |-> requested, Available |-> available]

\* matchMarketOrder after the walk: the status is always Filled
MarketResult(st) ==
    [ob |-> st.ob, ord |-> st.ord, err |-> "",
     result |-> [Status |-> "FILLED", FilledQuantity |-> st.FilledQuantity,
                 RemainingQuantity |-> st.remainingQty, Trades |-> st.Trades],
     Requested |-> 0, Available |-> 0]

\* MarketChecked testing the liquidity after the walk
MarketCheckedLate(ob, heap, id, totalAvailable) ==
    IF totalAvailable < heap[id].Quantity
    THEN MarketRejected(MarketWalk(StartMatch(ob, heap, id), id).ob,
                        MarketWalk(StartMatch(ob, heap, id), id).ord,
                        heap[id].Quantity, totalAvailable)
    ELSE MarketResult(MarketWalk(StartMatch(ob, heap, id), id))

MarketChecked(ob, heap, id, totalAvailable) ==
    IF totalAvailable < heap[id].Quantity
    THEN MarketRejected(ob, heap, heap[id].Quantity, totalAvailable)
    ELSE MarketResult(MarketWalk(StartMatch(ob, heap, id), id))

\* matchMarketOrder on a book that has admitted the order
matchMarketOrderAdmitting(ob, heap, id) ==
    MarketChecked(AddOrder(ob, heap, id), heap, id,
                  TotalAvailable(TreeOf(ob, Opposing(heap[id].Side)), heap))

matchMarketOrder(ob, heap, id) ==
    MarketChecked(ob, heap, id,
                  TotalAvailable(TreeOf(ob, Opposing(heap[id].Side)), heap))

----------------------------------------------------------------------------
(* RateLimiter (ratelimit.go).  A string is the sequence of its characters; *)
(* time is counted in ticks of half a second, so that a window duration     *)
(* need not be a whole number of seconds.                                   *)

TicksPerSecond == 2

MaxTime == 3

maxRequests == 2

\* the client ids getClientID returns: whatever X-Forwarded-For holds
Clients == {<<"a">>, <<"b">>, <<"a", "_", "1">>}

\* the values of RATE_LIMIT_WINDOW routes.go accepts: any duration > 0
Durations == 1..(2 * TicksPerSecond)

NewRateLimiter(windowDuration) ==
    [windowDuration |-> windowDuration, counters |-> <<>>]

\* fmt's %d
RECURSIVE Itoa(_)
Itoa(n) ==
    IF n < 10
    THEN <<<<"0", "1", "2", "3", "4", "5", "6", "7", "8", "9">>[n + 1]>>
    ELSE Itoa(n \div 10) \o Itoa(n % 10)

\* now.Unix(): whole seconds
Unix(t) == t \div TicksPerSecond

\* int64(rl.windowDuration.Seconds()): the float is truncated
WindowSeconds(r) == r.windowDuration \div TicksPerSecond

\* now.Unix() / int64(rl.windowDuration.Seconds())
WindowNumber(r, t) == Unix(t) \div WindowSeconds(r)

\* fmt.Sprintf("%s_%d", clientIP, windowNumber)
getWindowKey(r, clientIP, t) == clientIP \o <<"_">> \o Itoa(WindowNumber(r, t))

\* len(key) > len(clientPrefix) && key[:len(clientPrefix)] == clientPrefix
HasPrefix(key, clientPrefix) ==
    /\ Len(key) > Len(clientPrefix)
    /\ SubSeq(key, 1, Len(clientPrefix)) = clientPrefix

\* removeOldWindows: every key but the current one that starts with
\* clientIP + "_" is deleted
removeOldWindows(counters, clientIP, currentWindowKey) ==
    [key \in {k \in DOMAIN counters :
                 k = currentWindowKey \/ ~HasPrefix(k, clientIP \o <<"_">>)}
        |-> counters[key]]

\* rl.counters[key] = count
Counted(counters, key, count) ==
    [k \in (DOMAIN counters) \cup {key} |->
        IF k = key THEN count ELSE counters[k]]

\* Allow once the key is computed
AllowKey(r, clientIP, key) ==
    IF key \notin DOMAIN r.counters
    THEN [rl |-> [r EXCEPT !.counters =
                     Counted(removeOldWindows(r.counters, clientIP, key),
                             key, 1)],
          ok |-> "true"]
    ELSE IF r.counters[key] >= maxRequests
    THEN [rl |-> r, ok |-> "false"]
    ELSE [rl |-> [r EXCEPT !.counters = Counted(r.counters, key,
                                                r.counters[key] + 1)],
          ok |-> "true"]

\* RateLimiter.Allow at time t, all of it under rl.mu.  The division in
\* getWindowKey panics when the window has less than one whole second; the
\* deferred Unlock runs and no decision is returned
Allow(r, clientIP, t) ==
    IF WindowSeconds(r) = 0
    THEN [rl |-> r, ok |-> "panic"]
    ELSE AllowKey(r, clientIP, getWindowKey(r, clientIP, t))

----------------------------------------------------------------------------
(* ServiceAvailability.Middleware (service_availability.go) *)

maxConcurrentRequests == 1

\* the requests that may be in the middleware at the same time
RequestIds == 1..(maxConcurrentRequests + 2)

NewServiceAvailability ==
    [maintenanceMode |-> FALSE, inFlightRequests |-> 0,
     pc |-> [r \in RequestIds |-> "none"]]

----------------------------------------------------------------------------
(* The calls *)

\* no order: the order field of a call that submits none
NoOrder == NewOrder(0, "", "", "", 0, 0)

NoCall ==
    [op |-> "none", id |-> 0, order |-> NoOrder, err |-> "",
     result |-> NilResult, Requested |-> 0, Available |-> 0, ret |-> FALSE,
     symbol |-> "", depth |-> 0, bids |-> <<>>, asks |-> <<>>,
     OrdersInBook |-> 0]

RECURSIVE SeqIds(_)
SeqIds(queue) == IF queue = <<>> THEN {} ELSE {Head(queue)} \cup SeqIds(Tail(queue))

\* the ids one price index holds in its queues
TreeIds(tree) == UNION {SeqIds(tree[p]) : p \in DOMAIN tree}

\* the order objects some book still points to, from its id-map or from a
\* queue; the others are garbage once the call that made them has returned
Referenced(books) ==
    UNION {books[s].Orders \cup TreeIds(books[s].Bids) \cup TreeIds(books[s].Asks)
             : s \in DOMAIN books}

Collect(heap, books) == [i \in (DOMAIN heap) \cap Referenced(books) |-> heap[i]]

\* the goroutines that serve calls at the same time
ProcIds == {1, 2}

\* a goroutine that serves no call.  For a MatchOrder call the locals of
\* matchLimitOrder: bestPrice and the held *PriceLevel (detached once the
\* level left the tree, with the queue it had then), the resting order rid,
\* executionQty, remainingQty and the result; for CancelOrder the id and the
\* response; for a read what it saw.
NoProc ==
    [pc |-> "idle", op |-> "none", id |-> 0, order |-> NoOrder,
     bestPrice |-> 0, detached |-> FALSE, held |-> <<>>, rid |-> 0,
     executionQty |-> 0, remainingQty |-> 0, Trades |-> <<>>,
     FilledQuantity |-> 0, status |-> "", seen |-> <<>>,
     symbol |-> "", book |-> 0, locks |-> {}, calls |-> <<>>]

NoBatch == [books |-> <<>>, ord |-> <<>>]

\* no request of a handler was served
\* no order book was created and no request body was parsed: instance names the OrderBook object each
\* entry of Matcher.OrderBooks points to, minted counts the objects made by
\* NewOrderBook, returned collects what GetOrCreateOrderBook returned, req
\* is the body of the last POST request, rejected the orders MatchOrder
\* returned an error for, decision the last call of Allow and what it
\* returned, allowed the number of times Allow returned true to each client
\* in each window
NoDecision == [clientIP |-> <<>>, at |-> 0, ok |-> "none"]

NoRequest ==
    [Symbol |-> "", Side |-> "", Type |-> "", Price |-> 0, Quantity |-> 0]

NoHistory ==
    [filled |-> {}, cancelled |-> {},
     instance |-> <<>>, minted |-> 0, returned |-> {}, req |-> NoRequest,
     rejected |-> {}, allowed |-> <<>>, decision |-> NoDecision]

Init ==
    /\ OrderBooks = <<>>
    /\ ord = <<>>
    /\ nextOrderID = 1
    /\ last = NoCall
    /\ hist = NoHistory
    /\ proc = [p \in ProcIds |-> NoProc]
    /\ batch = NoBatch
    /\ rl = NewRateLimiter(TicksPerSecond)
    /\ sa = NewServiceAvailability
    /\ now = 0

\* the order objects with the new order among them
WithOrder(heap, order) ==
    [i \in (DOMAIN heap) \cup {order.ID} |->
        IF i = order.ID THEN order ELSE heap[i]]

\* MatchOrder storing the book it matched in under every symbol
ReturnedToEveryBook(order, books, r) ==
    /\ OrderBooks' = [s \in DOMAIN books |-> r.ob]
    /\ ord' = Collect(r.ord, [books EXCEPT ![order.Symbol] = r.ob])
    /\ nextOrderID' = nextOrderID + 1
    /\ last' = [op |-> "MatchOrder", id |-> order.ID, order |-> order,
                err |-> r.err, result |-> r.result,
                Requested |-> r.Requested, Available |-> r.Available,
                ret |-> FALSE, symbol |-> order.Symbol, depth |-> 0,
                bids |-> <<>>, asks |-> <<>>, OrdersInBook |-> 0]

\* the call returns: the book of the symbol and the orders are as the
\* matching left them, and r is what the caller gets
Returned(order, books, r) ==
    /\ OrderBooks' = [books EXCEPT ![order.Symbol] = r.ob]
    /\ ord' = Collect(r.ord, [books EXCEPT ![order.Symbol] = r.ob])
    /\ nextOrderID' = nextOrderID + 1
    /\ last' = [op |-> "MatchOrder", id |-> order.ID, order |-> order,
                err |-> r.err, result |-> r.result,
                Requested |-> r.Requested, Available |-> r.Available,
                ret |-> FALSE, symbol |-> order.Symbol, depth |-> 0,
                bids |-> <<>>, asks |-> <<>>, OrdersInBook |-> 0]

Dispatch(order, books) ==
    Returned(order, books,
             IF order.Type = "MARKET"
             THEN matchMarketOrder(books[order.Symbol], WithOrder(ord, order),
                                   order.ID)
             ELSE matchLimitOrder(books[order.Symbol], WithOrder(ord, order),
                                  order.ID))

\* Matcher.MatchOrder on a new order (the caller mints a fresh id for it)
MatchOrder(symbol, side, orderType, price, quantity) ==
    Dispatch(NewOrder(nextOrderID, symbol, side, orderType, price, quantity),
             GetOrCreateOrderBook(OrderBooks, symbol))

\* a limit order is submitted, while fewer than maxOrders orders were
SubmitLimit(maxOrders) ==
    /\ nextOrderID <= maxOrders
    /\ \E symbol \in Symbols, side \in Sides, price \in Prices,
          quantity \in Quantities :
            MatchOrder(symbol, side, "LIMIT", price, quantity)
    /\ UNCHANGED <<hist, proc, batch, mw>>

\* a market order is submitted, while fewer than maxOrders orders were
SubmitMarket(maxOrders) ==
    /\ nextOrderID <= maxOrders
    /\ \E symbol \in Symbols, side \in Sides, quantity \in Quantities :
            MatchOrder(symbol, side, "MARKET", 0, quantity)
    /\ UNCHANGED <<hist, proc, batch, mw>>

Removed(orderID, symbol, r) ==
    /\ OrderBooks' = [OrderBooks EXCEPT ![symbol] = r.ob]
    /\ ord' = Collect(ord, [OrderBooks EXCEPT ![symbol] = r.ob])
    /\ UNCHANGED <<nextOrderID, hist, proc, batch, mw>>
    /\ last' = [NoCall EXCEPT !.op = "RemoveOrder", !.id = orderID,
                              !.ret = r.ret]

\* OrderBook.RemoveOrder called on a book, as the engine's cancel; the id is
\* one that was minted, or nextOrderID for an id no book has seen
CallRemoveOrder ==
    \E symbol \in DOMAIN OrderBooks, orderID \in 1..nextOrderID :
        Removed(orderID, symbol, RemoveOrder(OrderBooks[symbol], ord, orderID))

Next ==
    \/ SubmitLimit(MaxOrders)
    \/ SubmitMarket(MaxOrders)
    \/ CallRemoveOrder

Spec == Init /\ [][Next]_vars

\* limit orders and cancels only
NextLimit ==
    \/ SubmitLimit(MaxOrders)
    \/ CallRemoveOrder

SpecLimit == Init /\ [][NextLimit]_vars

\* the same calls with one more order: the histories in which one call
\* meets three resting orders
NextDeep ==
    \/ SubmitLimit(MaxOrders + 1)
    \/ SubmitMarket(MaxOrders + 1)
    \/ CallRemoveOrder

SpecDeep == Init /\ [][NextDeep]_vars

NextLimitDeep ==
    \/ SubmitLimit(MaxOrders + 1)
    \/ CallRemoveOrder

SpecLimitDeep == Init /\ [][NextLimitDeep]_vars

----------------------------------------------------------------------------
(* The HTTP handlers (order_handler.go), requests served one at a time *)

\* the quantity the trades took from the resting order id
RECURSIVE Taken(_, _)
Taken(trades, id) ==
    IF trades = <<>> THEN 0
    ELSE (IF id \in {Head(trades).BuyOrderID, Head(trades).SellOrderID}
          THEN Head(trades).Quantity ELSE 0) + Taken(Tail(trades), id)

\* the orders a MatchOrder call filled completely: the submitted order, by
\* the result of the call, and the resting orders, by its trades
FilledBy(call, heap) ==
    {id \in {call.id} : call.result.FilledQuantity >= call.order.Quantity}
      \cup {id \in DOMAIN heap :
              /\ Taken(call.result.Trades, id) > 0
              /\ heap[id].FilledQuantity + Taken(call.result.Trades, id)
                   >= heap[id].Quantity}

\* OrderHandler.SubmitOrder for a valid request: the order is made with a
\* fresh id and handed to MatchOrder
SubmitOrder ==
    /\ nextOrderID <= MaxOrders
    /\ \/ \E symbol \in Symbols, side \in Sides, price \in Prices,
             quantity \in Quantities :
               MatchOrder(symbol, side, "LIMIT", price, quantity)
       \/ \E symbol \in Symbols, side \in Sides, quantity \in Quantities :
               MatchOrder(symbol, side, "MARKET", 0, quantity)
    /\ hist' = [hist EXCEPT !.filled = @ \cup FilledBy(last', ord)]
    /\ UNCHANGED <<proc, batch, mw>>

\* the books of the snapshot in which GetOrder finds the id
FoundIn(books, orderID) ==
    {s \in DOMAIN books : GetOrder(books[s], orderID)}

CancelResponse(books, heap, err) == [books |-> books, ord |-> heap, err |-> err]

\* CancelOrder setting the status without RemoveOrder
CancelFoundNoRemove(books, heap, symbol, orderID) ==
    IF heap[orderID].Status = "FILLED"
    THEN CancelResponse(books, heap, "AlreadyFilled")
    ELSE CancelResponse(books,
                        [heap EXCEPT ![orderID] = SetStatus(@, "CANCELLED")],
                        "")

\* OrderHandler.CancelOrder once the order was found: 400 for a filled
\* order, otherwise RemoveOrder, SetStatus(Cancelled) and 200
CancelFound(books, heap, symbol, orderID) ==
    IF heap[orderID].Status = "FILLED"
    THEN CancelResponse(books, heap, "AlreadyFilled")
    ELSE CancelResponse([books EXCEPT ![symbol] = RemoveOrder(@, heap, orderID).ob],
                        [heap EXCEPT ![orderID] = SetStatus(@, "CANCELLED")],
                        "")

\* OrderHandler.CancelOrder: 404 when no book of the snapshot has the id
CancelOrder(books, heap, orderID) ==
    IF FoundIn(books, orderID) = {}
    THEN CancelResponse(books, heap, "NotFound")
    ELSE CancelFound(books, heap, CHOOSE s \in FoundIn(books, orderID) : TRUE,
                     orderID)

CancelReturned(orderID, r) ==
    /\ OrderBooks' = r.books
    /\ ord' = Collect(r.ord, r.books)
    /\ UNCHANGED nextOrderID
    /\ last' = [NoCall EXCEPT !.op = "CancelOrder", !.id = orderID,
                              !.err = r.err, !.ret = (r.err = "")]
    /\ hist' = [hist EXCEPT !.cancelled =
                                IF r.err = "" THEN @ \cup {orderID} ELSE @]
    /\ UNCHANGED <<proc, batch, mw>>

\* a cancel request for an id that was minted, or for nextOrderID, an id no
\* book has seen
HandleCancelOrder ==
    \E orderID \in 1..nextOrderID :
        CancelReturned(orderID, CancelOrder(OrderBooks, ord, orderID))

\* the bodies of POST requests: the fields of models.SubmitOrderRequest,
\* with values validateSubmitOrderRequest refuses among them
Requests ==
    [Symbol : Symbols \cup {""}, Side : Sides \cup {"HOLD"},
     Type : {"LIMIT", "MARKET", "STOP"}, Price : 0..MaxPrice,
     Quantity : 0..MaxQty]

\* validateSubmitOrderRequest without the test of the quantity
validateWithoutQuantity(req) ==
    IF req.Symbol = "" THEN "symbol is required"
    ELSE IF req.Side # "BUY" /\ req.Side # "SELL"
    THEN "side must be BUY or SELL"
    ELSE IF req.Type # "LIMIT" /\ req.Type # "MARKET"
    THEN "type must be LIMIT or MARKET"
    ELSE IF req.Type = "LIMIT" /\ req.Price <= 0
    THEN "price must be positive for LIMIT orders"
    ELSE ""

\* the message of the ValidationError, "" for nil
validateSubmitOrderRequest(req) ==
    IF req.Symbol = "" THEN "symbol is required"
    ELSE IF req.Side # "BUY" /\ req.Side # "SELL"
    THEN "side must be BUY or SELL"
    ELSE IF req.Type # "LIMIT" /\ req.Type # "MARKET"
    THEN "type must be LIMIT or MARKET"
    ELSE IF req.Quantity <= 0 THEN "quantity must be positive"
    ELSE IF req.Type = "LIMIT" /\ req.Price <= 0
    THEN "price must be positive for LIMIT orders"
    ELSE ""

\* the conversions of req.Side and req.Type
SideOf(req) == IF req.Side = "BUY" THEN "BUY" ELSE "SELL"

TypeOf(req) == IF req.Type = "LIMIT" THEN "LIMIT" ELSE "MARKET"

\* the 400 response to a request that fails validation
Rejected(req, err) ==
    /\ last' = [NoCall EXCEPT !.op = "SubmitOrder", !.err = err]
    /\ hist' = [hist EXCEPT !.req = req]
    /\ UNCHANGED <<OrderBooks, ord, nextOrderID, proc, batch, mw>>

\* NewOrder with a fresh id from the fields of the request, and MatchOrder
Accepted(req, maxOrders) ==
    /\ nextOrderID <= maxOrders
    /\ MatchOrder(req.Symbol, SideOf(req), TypeOf(req), req.Price, req.Quantity)
    /\ hist' = [hist EXCEPT !.filled = @ \cup FilledBy(last', ord),
                            !.req = req]
    /\ UNCHANGED <<proc, batch, mw>>

Served(req, err, maxOrders) ==
    IF err # "" THEN Rejected(req, err) ELSE Accepted(req, maxOrders)

\* OrderHandler.SubmitOrder for any request body, while fewer than maxOrders
\* orders were made
PostOrder(maxOrders) ==
    \E req \in Requests :
        Served(req, validateSubmitOrderRequest(req), maxOrders)

NextRequests ==
    \/ PostOrder(MaxOrders - 1)
    \/ HandleCancelOrder

SpecRequests == Init /\ [][NextRequests]_vars

\* two instruments
TwoSymbols == {"AAPL", "GOOGL"}

\* OrderHandler.SubmitOrder for a valid request that names one of symbols
SubmitOn(symbols) ==
    /\ nextOrderID <= MaxOrders
    /\ \/ \E symbol \in symbols, side \in Sides, price \in Prices,
             quantity \in Quantities :
               MatchOrder(symbol, side, "LIMIT", price, quantity)
       \/ \E symbol \in symbols, side \in Sides, quantity \in Quantities :
               MatchOrder(symbol, side, "MARKET", 0, quantity)
    /\ hist' = [hist EXCEPT !.filled = @ \cup FilledBy(last', ord)]
    /\ UNCHANGED <<proc, batch, mw>>

\* submit and cancel requests on two instruments
NextSymbols ==
    \/ SubmitOn(TwoSymbols)
    \/ HandleCancelOrder

SpecSymbols == Init /\ [][NextSymbols]_vars

AddReturned(orderID, symbol, ob) ==
    /\ OrderBooks' = [OrderBooks EXCEPT ![symbol] = ob]
    /\ ord' = Collect(ord, [OrderBooks EXCEPT ![symbol] = ob])
    /\ UNCHANGED <<nextOrderID, hist, proc, batch, mw>>
    /\ last' = [NoCall EXCEPT !.op = "AddOrder", !.id = orderID]

\* OrderBook.AddOrder called by an engine client with an order the book
\* already indexes, while the queue of its level has room in the model
CallAddOrder ==
    \E symbol \in DOMAIN OrderBooks :
        \E orderID \in OrderBooks[symbol].Orders :
            /\ Len(LevelOrders(OrderBooks[symbol], ord[orderID].Side,
                               ord[orderID].Price)) < MaxOrders
            /\ AddReturned(orderID, symbol,
                           AddOrder(OrderBooks[symbol], ord, orderID))

\* the depths a reader asks for
Depths == 0..MaxPrice

SnapshotReturned(symbol, depth, r) ==
    /\ last' = [NoCall EXCEPT !.op = "GetOrderBookSnapshot",
                               !.symbol = symbol, !.depth = depth,
                               !.bids = r.bids, !.asks = r.asks]
    /\ UNCHANGED <<OrderBooks, ord, nextOrderID, hist, proc, batch, mw>>

\* OrderBook.GetOrderBookSnapshot on one of the books
CallGetOrderBookSnapshot ==
    \E symbol \in DOMAIN OrderBooks :
        \E depth \in Depths :
            SnapshotReturned(symbol, depth,
                             GetOrderBookSnapshot(OrderBooks[symbol], ord,
                                                  depth))

\* orders of both types, cancels through RemoveOrder, and snapshots
NextRead ==
    \/ SubmitLimit(MaxOrders)
    \/ SubmitMarket(MaxOrders)
    \/ CallRemoveOrder
    \/ CallGetOrderBookSnapshot

SpecRead == Init /\ [][NextRead]_vars

\* limit orders, cancels through RemoveOrder, and AddOrder called again
NextEngine ==
    \/ SubmitLimit(MaxOrders)
    \/ CallRemoveOrder
    \/ CallAddOrder

SpecEngine == Init /\ [][NextEngine]_vars

NextApi ==
    \/ SubmitOrder
    \/ HandleCancelOrder

SpecApi == Init /\ [][NextApi]_vars

----------------------------------------------------------------------------
(* Calls served at the same time.  matchLimitOrder and CancelOrder hold no *)
(* lock across their statements: each step below is one locked OrderBook   *)
(* method, one atomic operation on an Order, or one run of unlocked        *)
(* statements between two of them.                                         *)

Running(p) == proc[p].pc \notin {"idle", "done"}

\* no other call is in progress
Quiet(p) == \A q \in ProcIds \ {p} : ~Running(q)

\* a goroutine takes its next call when it is free; one whose call has
\* returned waits for the calls that ran with it
CanBegin(p) == proc[p].pc = "idle" \/ (proc[p].pc = "done" /\ Quiet(p))

\* the goroutines once p has begun the call rec: calls that returned before
\* it began are forgotten
Begun(p, rec) ==
    [q \in ProcIds |-> IF q = p THEN rec
                       ELSE IF Quiet(p) THEN NoProc ELSE proc[q]]

BatchAt(p) == IF Quiet(p) THEN [books |-> OrderBooks, ord |-> ord] ELSE batch

\* the order objects a call in progress points to
HeldBy(rec) ==
    IF rec.pc \in {"idle", "done"} THEN {}
    ELSE ({rec.id, rec.rid} \cup SeqIds(rec.held)) \ {0}

CollectAll(heap, books, procs) ==
    [i \in (DOMAIN heap)
            \cap (Referenced(books) \cup UNION {HeldBy(procs[q]) : q \in ProcIds})
       |-> heap[i]]

\* one step of a goroutine
Step(books, heap, procs) ==
    /\ OrderBooks' = books
    /\ ord' = CollectAll(heap, books, procs)
    /\ proc' = procs
    /\ UNCHANGED <<last, hist>>

\* one step of a call in progress
Move(books, heap, procs) ==
    /\ Step(books, heap, procs)
    /\ UNCHANGED <<nextOrderID, batch, mw>>

Set(p, rec) == [proc EXCEPT ![p] = rec]

BookOf(p) == OrderBooks[proc[p].order.Symbol]

WithBook(p, ob) == [OrderBooks EXCEPT ![proc[p].order.Symbol] = ob]

\* the matching state of the call of p, as the matching loops take it
MatchState(p) ==
    [ob |-> BookOf(p), ord |-> ord, remainingQty |-> proc[p].remainingQty,
     Trades |-> proc[p].Trades, FilledQuantity |-> proc[p].FilledQuantity]

\* the call holds a *PriceLevel
Walking(rec) ==
    rec.pc \in {"loop", "trade", "remove", "check",
                "m_loop", "m_trade", "m_remove", "m_check"}

\* bestPriceLevel.Orders through the pointer the call holds
HeldOrders(rec, ob) ==
    IF rec.detached THEN rec.held
    ELSE LevelOrders(ob, Opposing(rec.order.Side), rec.bestPrice)

\* a level that leaves the tree stays with the calls that hold it, with the
\* queue it has then (obOld without the order RemoveOrder took out)
Detach(rec, symbol, obOld, obNew, removedID) ==
    IF /\ Walking(rec)
       /\ ~rec.detached
       /\ rec.order.Symbol = symbol
       /\ rec.bestPrice \notin DOMAIN TreeOf(obNew, Opposing(rec.order.Side))
    THEN [rec EXCEPT !.detached = TRUE,
                     !.held = RemoveFirst(LevelOrders(obOld,
                                                      Opposing(rec.order.Side),
                                                      rec.bestPrice),
                                          removedID)]
    ELSE rec

DetachAll(procs, symbol, obOld, obNew, removedID) ==
    [q \in ProcIds |-> Detach(procs[q], symbol, obOld, obNew, removedID)]

\* MatchOrder is called with a new limit order: GetOrCreateOrderBook
Started(p, order) ==
    /\ Step(GetOrCreateOrderBook(OrderBooks, order.Symbol),
            WithOrder(ord, order),
            Begun(p, [NoProc EXCEPT !.pc = "best", !.op = "MatchOrder",
                                    !.id = order.ID, !.order = order,
                                    !.remainingQty = order.Quantity]))
    /\ nextOrderID' = nextOrderID + 1
    /\ batch' = BatchAt(p)
    /\ UNCHANGED mw

BeginMatch(p) ==
    /\ CanBegin(p)
    /\ nextOrderID <= MaxOrders
    /\ \E symbol \in Symbols, side \in Sides, price \in Prices,
          quantity \in Quantities :
            Started(p, NewOrder(nextOrderID, symbol, side, "LIMIT", price,
                                quantity))

\* the break out of the loop over one level, and the test that follows it
LeaveLevel(rec) ==
    [rec EXCEPT !.pc = IF rec.remainingQty <= 0 THEN "finish" ELSE "best",
                !.bestPrice = 0, !.detached = FALSE, !.held = <<>>,
                !.rid = 0, !.executionQty = 0]

AtBest(rec, best) ==
    IF \/ ~(rec.remainingQty > 0)
       \/ ~best.ok
       \/ (rec.order.Side = "BUY" /\ rec.order.Price < best.price)
       \/ (rec.order.Side = "SELL" /\ rec.order.Price > best.price)
    THEN [rec EXCEPT !.pc = "finish"]
    ELSE [rec EXCEPT !.pc = "level", !.bestPrice = best.price]

\* matchLimitOrder, the top of the outer loop: GetBestAsk / GetBestBid and
\* the price test
Best(p) ==
    /\ proc[p].pc = "best"
    /\ Move(OrderBooks, ord,
            Set(p, AtBest(proc[p], BestOpposing(MatchState(p), proc[p].id))))

\* matchLimitOrder: GetPriceLevelForAsk / GetPriceLevelForBid, nil when the
\* level has left the tree
Level(p) ==
    /\ proc[p].pc = "level"
    /\ Move(OrderBooks, ord,
            Set(p, IF proc[p].bestPrice
                        \in DOMAIN TreeOf(BookOf(p), Opposing(proc[p].order.Side))
                   THEN [proc[p] EXCEPT !.pc = "loop"]
                   ELSE [proc[p] EXCEPT !.pc = "finish", !.bestPrice = 0]))

\* the loop going round without slicing the filled head off
SlicedNothing(p, rec, queue) ==
    Move(OrderBooks, ord, proc)

\* the filled head is sliced off the held level
Sliced(p, rec, queue) ==
    IF rec.detached
    THEN Move(OrderBooks, ord, Set(p, [rec EXCEPT !.held = Tail(queue)]))
    ELSE Move(WithBook(p, DropHead(MatchState(p), rec.id, rec.bestPrice).ob),
              ord, proc)

\* the head of the level is taken as restingOrder; executionQty is the
\* smaller of two positive quantities here
Picked(rec, restingOrder) ==
    [rec EXCEPT !.pc = "trade", !.rid = restingOrder.ID,
                !.executionQty = MinQty(rec.remainingQty,
                                        RemainingQuantity(restingOrder))]

AtHead(p, rec, queue) ==
    IF ~(rec.remainingQty > 0 /\ ~IsFilled(ord[rec.id])) \/ Len(queue) = 0
    THEN Move(OrderBooks, ord, Set(p, LeaveLevel(rec)))
    ELSE IF RemainingQuantity(ord[queue[1]]) <= 0
    THEN Sliced(p, rec, queue)
    ELSE Move(OrderBooks, ord, Set(p, Picked(rec, ord[queue[1]])))

\* matchLimitOrder, the top of the inner loop: the loop test, the length
\* test, restingOrder and restingRemaining, executionQty
Loop(p) ==
    /\ proc[p].pc = "loop"
    /\ AtHead(p, proc[p], HeldOrders(proc[p], BookOf(p)))

AfterTrade(rec, heap) ==
    IF rec.remainingQty <= 0 \/ IsFilled(heap[rec.id]) THEN LeaveLevel(rec)
    ELSE [rec EXCEPT !.pc = "remove"]

Traded(p, rec, st) ==
    Move(OrderBooks, st.ord,
         Set(p, AfterTrade([rec EXCEPT !.remainingQty = st.remainingQty,
                                       !.Trades = st.Trades,
                                       !.FilledQuantity = st.FilledQuantity],
                           st.ord)))

\* matchLimitOrder: the trade, the two Fill calls, and the test that ends
\* the loop when the incoming order is complete
Trade(p) ==
    /\ proc[p].pc = "trade"
    /\ Traded(p, proc[p],
              LimitExecute(MatchState(p), proc[p].id, proc[p].rid,
                           proc[p].bestPrice, proc[p].executionQty))

RemovedBy(p, rec, ob, rid) ==
    Move(WithBook(p, ob), ord,
         DetachAll(Set(p, rec), rec.order.Symbol, BookOf(p), ob, rid))

\* matchLimitOrder: RemoveOrder of the resting order when it is filled
Remove(p) ==
    /\ proc[p].pc = "remove"
    /\ IF IsFilled(ord[proc[p].rid])
       THEN RemovedBy(p, [proc[p] EXCEPT !.pc = "check", !.rid = 0],
                      RemoveOrder(BookOf(p), ord, proc[p].rid).ob, proc[p].rid)
       ELSE Move(OrderBooks, ord, Set(p, [proc[p] EXCEPT !.pc = "check", !.rid = 0]))

\* matchLimitOrder: the length test after the removal; an empty level is
\* deleted from the tree by its price
Check(p) ==
    /\ proc[p].pc = "check"
    /\ IF Len(HeldOrders(proc[p], BookOf(p))) = 0
       THEN RemovedBy(p, LeaveLevel(proc[p]),
                      DeleteLevel(MatchState(p), proc[p].id, proc[p].bestPrice).ob,
                      0)
       ELSE Move(OrderBooks, ord, Set(p, [proc[p] EXCEPT !.pc = "loop"]))

Finished(p, r) ==
    Move(WithBook(p, r.ob), ord,
         Set(p, [proc[p] EXCEPT !.pc = "done", !.status = r.result.Status]))

\* matchLimitOrder after the loops: the status, AddOrder of the residual,
\* and the return
Finish(p) ==
    /\ proc[p].pc = "finish"
    /\ Finished(p, LimitResult(MatchState(p), proc[p].id))

\* MatchOrder is called with a new market order: GetOrCreateOrderBook
MktStarted(p, order) ==
    /\ Step(GetOrCreateOrderBook(OrderBooks, order.Symbol),
            WithOrder(ord, order),
            Begun(p, [NoProc EXCEPT !.pc = "m_total", !.op = "MatchOrder",
                                    !.id = order.ID, !.order = order,
                                    !.remainingQty = order.Quantity]))
    /\ nextOrderID' = nextOrderID + 1
    /\ batch' = BatchAt(p)
    /\ UNCHANGED mw

MktBegin(p) ==
    /\ CanBegin(p)
    /\ nextOrderID <= MaxOrders
    /\ \E symbol \in Symbols, side \in Sides, quantity \in Quantities :
            MktStarted(p, NewOrder(nextOrderID, symbol, side, "MARKET", 0,
                                   quantity))

MktTotalled(rec, totalAvailable) ==
    IF totalAvailable < rec.remainingQty
    THEN [rec EXCEPT !.pc = "done", !.status = "InsufficientLiquidity"]
    ELSE [rec EXCEPT !.pc = "m_best"]

\* matchMarketOrder: totalAvailable and the rejection for insufficient
\* liquidity
MktTotal(p) ==
    /\ proc[p].pc = "m_total"
    /\ Move(OrderBooks, ord,
            Set(p, MktTotalled(proc[p],
                               TotalAvailable(TreeOf(BookOf(p),
                                                     Opposing(proc[p].order.Side)),
                                              ord))))

\* the break out of the loop over one level, and the test of the outer loop
MktLeaveLevel(rec) ==
    [rec EXCEPT !.pc = IF rec.remainingQty <= 0 THEN "m_finish" ELSE "m_best",
                !.bestPrice = 0, !.detached = FALSE, !.held = <<>>,
                !.rid = 0, !.executionQty = 0]

MktAtBest(rec, best) ==
    IF ~(rec.remainingQty > 0) \/ ~best.ok
    THEN [rec EXCEPT !.pc = "m_finish"]
    ELSE [rec EXCEPT !.pc = "m_level", !.bestPrice = best.price]

\* matchMarketOrder, the top of the outer loop: GetBestAsk / GetBestBid
MktBest(p) ==
    /\ proc[p].pc = "m_best"
    /\ Move(OrderBooks, ord,
            Set(p, MktAtBest(proc[p], BestOpposing(MatchState(p), proc[p].id))))

\* matchMarketOrder: GetPriceLevelForAsk / GetPriceLevelForBid, nil when the
\* level has left the tree
MktLevel(p) ==
    /\ proc[p].pc = "m_level"
    /\ Move(OrderBooks, ord,
            Set(p, IF proc[p].bestPrice
                        \in DOMAIN TreeOf(BookOf(p), Opposing(proc[p].order.Side))
                   THEN [proc[p] EXCEPT !.pc = "m_loop"]
                   ELSE [proc[p] EXCEPT !.pc = "m_finish", !.bestPrice = 0]))

MktAtHead(p, rec, queue) ==
    IF ~(rec.remainingQty > 0) \/ Len(queue) = 0
    THEN Move(OrderBooks, ord, Set(p, MktLeaveLevel(rec)))
    ELSE IF RemainingQuantity(ord[queue[1]]) <= 0
    THEN Sliced(p, rec, queue)
    ELSE Move(OrderBooks, ord,
              Set(p, [Picked(rec, ord[queue[1]]) EXCEPT !.pc = "m_trade"]))

\* matchMarketOrder, the top of the inner loop: the loop test, the length
\* test, restingOrder and restingRemaining, executionQty
MktLoop(p) ==
    /\ proc[p].pc = "m_loop"
    /\ MktAtHead(p, proc[p], HeldOrders(proc[p], BookOf(p)))

MktTraded(p, rec, st) ==
    Move(OrderBooks, st.ord,
         Set(p, [rec EXCEPT !.pc = "m_remove",
                            !.remainingQty = st.remainingQty,
                            !.Trades = st.Trades,
                            !.FilledQuantity = st.FilledQuantity]))

\* matchMarketOrder: the trade, the two Fill calls, remainingQty
MktTrade(p) ==
    /\ proc[p].pc = "m_trade"
    /\ MktTraded(p, proc[p],
                 MarketExecute(MatchState(p), proc[p].id, proc[p].rid,
                               proc[p].bestPrice, proc[p].executionQty))

\* matchMarketOrder: RemoveOrder of the resting order when it is filled (rid
\* stays set: the slice after it is still to come)
MktRemove(p) ==
    /\ proc[p].pc = "m_remove"
    /\ IF IsFilled(ord[proc[p].rid])
       THEN RemovedBy(p, [proc[p] EXCEPT !.pc = "m_check"],
                      RemoveOrder(BookOf(p), ord, proc[p].rid).ob, proc[p].rid)
       ELSE Move(OrderBooks, ord,
                 Set(p, [proc[p] EXCEPT !.pc = "m_check", !.rid = 0]))

\* bestPriceLevel.Orders = bestPriceLevel.Orders[1:] (or [:0]) after the
\* RemoveOrder, on the level in the tree or on the level the call holds
MktSlicedBook(p) ==
    IF proc[p].rid # 0 /\ ~proc[p].detached
    THEN DropHeadAgain(MatchState(p), proc[p].id, proc[p].bestPrice).ob
    ELSE BookOf(p)

MktSlicedRec(rec) ==
    IF rec.rid # 0 /\ rec.detached
    THEN [rec EXCEPT !.rid = 0,
                     !.held = IF Len(rec.held) > 1 THEN Tail(rec.held) ELSE <<>>]
    ELSE [rec EXCEPT !.rid = 0]

\* Asks.Delete / Bids.Delete of the walked level in the book ob
MktDeleted(p, rec, ob) ==
    WithTree(ob, Opposing(rec.order.Side),
             TreeDelete(TreeOf(ob, Opposing(rec.order.Side)), rec.bestPrice))

MktChecked(p, rec, ob) ==
    IF rec.remainingQty <= 0
    THEN Move(WithBook(p, ob), ord, Set(p, MktLeaveLevel(rec)))
    ELSE IF Len(HeldOrders(rec, ob)) = 0
    THEN Move(WithBook(p, MktDeleted(p, rec, ob)), ord,
              DetachAll(Set(p, MktLeaveLevel(rec)), rec.order.Symbol, ob,
                        MktDeleted(p, rec, ob), 0))
    ELSE Move(WithBook(p, ob), ord, Set(p, [rec EXCEPT !.pc = "m_loop"]))

\* matchMarketOrder after the removal: the slice, the test of remainingQty,
\* the length test and the deletion of an empty level
MktCheck(p) ==
    /\ proc[p].pc = "m_check"
    /\ MktChecked(p, MktSlicedRec(proc[p]), MktSlicedBook(p))

\* matchMarketOrder after the loops: the status is Filled
MktFinish(p) ==
    /\ proc[p].pc = "m_finish"
    /\ Move(OrderBooks, ord,
            Set(p, [proc[p] EXCEPT !.pc = "done", !.status = "FILLED"]))

\* CancelOrder: the order is looked up in the books
Sought(orderID, found) ==
    IF found = {}
    THEN [NoProc EXCEPT !.pc = "done", !.op = "CancelOrder", !.id = orderID,
                        !.status = "NotFound"]
    ELSE [NoProc EXCEPT !.pc = "c_status", !.op = "CancelOrder",
                        !.id = orderID, !.order = ord[orderID]]

\* a cancel request arrives for an id that was minted: GetOrderBooksSnapshot
\* and GetOrder
CancelFind(p) ==
    /\ CanBegin(p)
    /\ \E orderID \in 1..(nextOrderID - 1) :
          Step(OrderBooks, ord,
               Begun(p, Sought(orderID, FoundIn(OrderBooks, orderID))))
    /\ batch' = BatchAt(p)
    /\ UNCHANGED mw
    /\ UNCHANGED nextOrderID

\* CancelOrder: GetStatus, 400 for a filled order
CancelStatus(p) ==
    /\ proc[p].pc = "c_status"
    /\ Move(OrderBooks, ord,
            Set(p, IF ord[proc[p].id].Status = "FILLED"
                   THEN [proc[p] EXCEPT !.pc = "done", !.status = "AlreadyFilled"]
                   ELSE [proc[p] EXCEPT !.pc = "c_remove"]))

\* CancelOrder: foundOrderBook.RemoveOrder
CancelRemove(p) ==
    /\ proc[p].pc = "c_remove"
    /\ RemovedBy(p, [proc[p] EXCEPT !.pc = "c_set"],
                 RemoveOrder(BookOf(p), ord, proc[p].id).ob, proc[p].id)

\* CancelOrder: SetStatus(Cancelled) and the 200 response
CancelSet(p) ==
    /\ proc[p].pc = "c_set"
    /\ Move(OrderBooks,
            [ord EXCEPT ![proc[p].id] = SetStatus(@, "CANCELLED")],
            Set(p, [proc[p] EXCEPT !.pc = "done", !.status = ""]))

\* a reader calls GetOrderBookSnapshot with the default depth
ReadSnapshot(p) ==
    /\ CanBegin(p)
    /\ \E symbol \in DOMAIN OrderBooks :
          Step(OrderBooks, ord,
               Begun(p, [NoProc EXCEPT !.pc = "done",
                                       !.op = "GetOrderBookSnapshot",
                                       !.seen = GetOrderBookSnapshot(
                                                    OrderBooks[symbol], ord,
                                                    defaultDepth)]))
    /\ batch' = BatchAt(p)
    /\ UNCHANGED mw
    /\ UNCHANGED nextOrderID

NextConcurrent ==
    \E p \in ProcIds :
        \/ BeginMatch(p)
        \/ Best(p)
        \/ Level(p)
        \/ Loop(p)
        \/ Trade(p)
        \/ Remove(p)
        \/ Check(p)
        \/ Finish(p)
        \/ CancelFind(p)
        \/ CancelStatus(p)
        \/ CancelRemove(p)
        \/ CancelSet(p)
        \/ ReadSnapshot(p)

SpecConcurrent == Init /\ [][NextConcurrent]_vars

(* The lock of the order book the next step of a call runs under: RLock    *)
(* inside GetBestAsk, GetBestBid and GetPriceLevelFor*, Lock inside         *)
(* RemoveOrder and AddOrder, none for the statements of the matching loops *)
(* and of the handler between those calls.                                 *)

LockHeld(rec) ==
    IF rec.pc \in {"best", "level", "m_best", "m_level"} THEN "RLock"
    ELSE IF rec.pc \in {"remove", "m_remove", "c_remove", "finish"} THEN "Lock"
    ELSE "none"

(* One goroutine serving one call after the other, statement by          *)
(* statement.                                                              *)

\* a call is taken
BeginCall(p) ==
    \/ BeginMatch(p)
    \/ MktBegin(p)
    \/ CancelFind(p)

\* matchLimitOrder goes on
LimitRuns(p) ==
    \/ Best(p)
    \/ Level(p)
    \/ Loop(p)
    \/ Trade(p)
    \/ Remove(p)
    \/ Check(p)
    \/ Finish(p)

\* matchMarketOrder goes on
MarketRuns(p) ==
    \/ MktTotal(p)
    \/ MktBest(p)
    \/ MktLevel(p)
    \/ MktLoop(p)
    \/ MktTrade(p)
    \/ MktRemove(p)
    \/ MktCheck(p)
    \/ MktFinish(p)

\* CancelOrder goes on
CancelRuns(p) ==
    \/ CancelStatus(p)
    \/ CancelRemove(p)
    \/ CancelSet(p)

\* the call in progress takes its next step
Runs(p) == LimitRuns(p) \/ MarketRuns(p) \/ CancelRuns(p)

NextSolo == BeginCall(1) \/ Runs(1)

SpecSolo == Init /\ [][NextSolo]_vars

\* the goroutine is scheduled as long as its call can go on
SpecSoloFair == SpecSolo /\ WF_vars(Runs(1))

(* Two goroutines serving submits of both order types at the same time.    *)

NextSubmits ==
    \E p \in ProcIds :
        \/ BeginMatch(p)
        \/ MktBegin(p)
        \/ LimitRuns(p)
        \/ MarketRuns(p)

SpecSubmits == Init /\ [][NextSubmits]_vars

(* Concurrent calls of GetOrCreateOrderBook.  Matcher.mu makes the read    *)
(* under RLock one step and the statements under Lock another.             *)

BookSymbols == {"AAPL", "GOOGL", "MSFT"}

\* GetOrCreateOrderBook returns the object the map holds for the symbol
BookReturned(p, status) ==
    [proc[p] EXCEPT !.pc = "done", !.status = status,
                    !.book = hist.instance[proc[p].symbol]]

\* m.OrderBooks[symbol] = NewOrderBook(symbol)
BookStored(books, symbol) ==
    [s \in (DOMAIN books) \cup {symbol} |->
        IF s = symbol THEN NewOrderBook(symbol) ELSE books[s]]

InstanceStored(symbol) ==
    [s \in (DOMAIN hist.instance) \cup {symbol} |->
        IF s = symbol THEN hist.minted + 1 ELSE hist.instance[s]]

BookStep(books, procs, history) ==
    /\ OrderBooks' = books
    /\ proc' = procs
    /\ hist' = history
    /\ UNCHANGED <<ord, nextOrderID, last>>

\* RLock, the map read, RUnlock, and the return of a book that exists
BookLookup(p) ==
    /\ CanBegin(p)
    /\ batch' = BatchAt(p)
    /\ UNCHANGED mw
    /\ \E symbol \in BookSymbols :
          IF symbol \in DOMAIN OrderBooks
          THEN BookStep(OrderBooks,
                        Begun(p, [NoProc EXCEPT !.pc = "done",
                                                !.op = "GetOrCreateOrderBook",
                                                !.symbol = symbol,
                                                !.status = "found",
                                                !.book = hist.instance[symbol]]),
                        [hist EXCEPT !.returned =
                                        @ \cup {<<symbol, hist.instance[symbol]>>}])
          ELSE BookStep(OrderBooks,
                        Begun(p, [NoProc EXCEPT !.pc = "g_lock",
                                                !.op = "GetOrCreateOrderBook",
                                                !.symbol = symbol]),
                        hist)

\* the second test of the map, under Lock
LockedLookupSkipped(books, symbol) ==
    FALSE

LockedLookup(books, symbol) ==
    symbol \in DOMAIN books

\* Lock, the second test, NewOrderBook and the store when the symbol is
\* still absent, Unlock
BookCreate(p) ==
    /\ proc[p].pc = "g_lock"
    /\ UNCHANGED <<batch, mw>>
    /\ IF LockedLookup(OrderBooks, proc[p].symbol)
       THEN BookStep(OrderBooks, Set(p, BookReturned(p, "found under Lock")),
                     [hist EXCEPT !.returned =
                                     @ \cup {<<proc[p].symbol,
                                               hist.instance[proc[p].symbol]>>}])
       ELSE BookStep(BookStored(OrderBooks, proc[p].symbol),
                     Set(p, [proc[p] EXCEPT !.pc = "done",
                                            !.status = "created",
                                            !.book = hist.minted + 1]),
                     [hist EXCEPT !.instance = InstanceStored(proc[p].symbol),
                                  !.minted = @ + 1,
                                  !.returned = @ \cup {<<proc[p].symbol,
                                                         hist.minted + 1>>}])

NextBooks ==
    \E p \in ProcIds :
        \/ BookLookup(p)
        \/ BookCreate(p)

SpecBooks == Init /\ [][NextBooks]_vars

----------------------------------------------------------------------------
(* The mutexes: Matcher.mu, one OrderBook.mu per book, one Order.statusMu  *)
(* per order, OrderHandler.latenciesMu. A call is the sequence of the Lock *)
(* and Unlock operations its code performs, in program order; which branch *)
(* the data selects (book found or not, number of trades, order filled or  *)
(* not) is chosen freely, so every lock sequence of the code is covered.   *)

Mutex(mu, of) == [mu |-> mu, of |-> of]

\* mu.Lock() / mu.RLock(), the body, mu.Unlock() / mu.RUnlock()
WithLock(mu, mode, body) ==
    <<[do |-> "Lock", mu |-> mu, mode |-> mode]>> \o body
        \o <<[do |-> "Unlock", mu |-> mu, mode |-> mode]>>

\* an OrderBook method: every one of them locks ob.mu on entry, defers the
\* unlock and calls no other method that locks
BookMethod(symbol, mode) == WithLock(Mutex("OrderBook.mu", symbol), mode, <<>>)

\* Fill, GetStatus and SetStatus lock the order's statusMu around the status
StatusMethod(which) == WithLock(Mutex("Order.statusMu", which), "W", <<>>)

GetOrderBooksSnapshotCalls == WithLock(Mutex("Matcher.mu", ""), "R", <<>>)

\* GetOrCreateOrderBook that keeps the read lock while it takes the write lock
GetOrCreateOrderBookUpgrading(exists) ==
    IF exists THEN WithLock(Mutex("Matcher.mu", ""), "R", <<>>)
    ELSE WithLock(Mutex("Matcher.mu", ""), "R",
                  WithLock(Mutex("Matcher.mu", ""), "W", <<>>))

\* GetOrCreateOrderBook: RLock, the test, RUnlock; when the symbol is
\* absent Lock, the second test and the store, Unlock
GetOrCreateOrderBookCalls(exists) ==
    IF exists THEN WithLock(Mutex("Matcher.mu", ""), "R", <<>>)
    ELSE WithLock(Mutex("Matcher.mu", ""), "R", <<>>)
            \o WithLock(Mutex("Matcher.mu", ""), "W", <<>>)

\* one round of a matching loop: GetBestAsk/GetBestBid, GetPriceLevelFor*,
\* the two Fill, and RemoveOrder when the resting order is filled
RoundCalls(symbol, filled) ==
    BookMethod(symbol, "R") \o BookMethod(symbol, "R")
        \o StatusMethod("order") \o StatusMethod("restingOrder")
        \o (IF filled THEN BookMethod(symbol, "W") ELSE <<>>)

RECURSIVE RoundsCalls(_, _, _)
RoundsCalls(symbol, rounds, filled) ==
    IF rounds = 0 THEN <<>>
    ELSE RoundCalls(symbol, filled) \o RoundsCalls(symbol, rounds - 1, filled)

\* MatchOrder: the book, the rounds, the last GetBest* that ends the loop
\* and AddOrder for the order that rests
MatchOrderCalls(symbol, exists, rounds, filled, rests) ==
    GetOrCreateOrderBookCalls(exists)
        \o RoundsCalls(symbol, rounds, filled)
        \o BookMethod(symbol, "R")
        \o (IF rests THEN BookMethod(symbol, "W") ELSE <<>>)

\* SubmitOrder: MatchOrder, recordLatency, and for a rejected market order
\* GetOrCreateOrderBook and GetBestAsk/GetBestBid once more
SubmitOrderCalls(symbol, exists, rounds, filled, rests, rejected) ==
    MatchOrderCalls(symbol, exists, rounds, filled, rests)
        \o WithLock(Mutex("latenciesMu", ""), "W", <<>>)
        \o (IF rejected
            THEN GetOrCreateOrderBookCalls(TRUE) \o BookMethod(symbol, "R")
            ELSE <<>>)

\* GetOrder on each book the loop of CancelOrder visits
RECURSIVE GetOrderCalls(_)
GetOrderCalls(books) ==
    IF books = <<>> THEN <<>>
    ELSE BookMethod(Head(books), "R") \o GetOrderCalls(Tail(books))

\* CancelOrder: GetOrderBooksSnapshot, GetOrder on the books in the order
\* the map is ranged over, up to the one that holds the order, GetStatus,
\* and for an order that is not filled RemoveOrder and SetStatus
CancelOrderCalls(books, found, filled) ==
    GetOrderBooksSnapshotCalls
        \o GetOrderCalls(books)
        \o (IF found THEN StatusMethod("restingOrder") ELSE <<>>)
        \o (IF found /\ ~filled
            THEN BookMethod(books[Len(books)], "W")
                    \o StatusMethod("restingOrder")
            ELSE <<>>)

\* the orders in which a range over Matcher.OrderBooks visits the books
Ranges ==
    {<<>>, <<"AAPL">>, <<"GOOGL">>, <<"AAPL", "GOOGL">>, <<"GOOGL", "AAPL">>}

\* GetOrderBook: GetOrCreateOrderBook and GetOrderBookSnapshot
GetOrderBookCalls(symbol, exists) ==
    GetOrCreateOrderBookCalls(exists) \o BookMethod(symbol, "R")

\* the locks held by the goroutines other than p
HeldByOthers(p) == UNION {proc[q].locks : q \in ProcIds \ {p}}

\* sync.RWMutex: Lock waits for every holder, RLock for the writer; neither
\* is reentrant, so the goroutine's own holds count as well
Grantable(p, call) ==
    \A h \in HeldByOthers(p) \cup proc[p].locks :
        h.mu = call.mu => (call.mode = "R" /\ h.mode = "R")

WantsLock(p) ==
    /\ proc[p].pc = "locks"
    /\ proc[p].calls # <<>>
    /\ Head(proc[p].calls).do = "Lock"

LockStep(p, rec) ==
    /\ proc' = Set(p, rec)
    /\ UNCHANGED <<OrderBooks, ord, nextOrderID, last, hist, batch, mw>>

BeginSubmit(p) ==
    /\ proc[p].pc = "idle"
    /\ \E symbol \in TwoSymbols, exists \in BOOLEAN, rounds \in 0..MaxQty,
          filled \in BOOLEAN, rests \in BOOLEAN, rejected \in BOOLEAN :
          LockStep(p, [NoProc EXCEPT
              !.pc = "locks", !.op = "SubmitOrder", !.symbol = symbol,
              !.calls = SubmitOrderCalls(symbol, exists, rounds, filled,
                                         rests, rejected)])

BeginCancel(p) ==
    /\ proc[p].pc = "idle"
    /\ \E books \in Ranges, found \in BOOLEAN, filled \in BOOLEAN :
          /\ found => books # <<>>
          /\ LockStep(p, [NoProc EXCEPT
                 !.pc = "locks", !.op = "CancelOrder",
                 !.calls = CancelOrderCalls(books, found, filled)])

BeginRead(p) ==
    /\ proc[p].pc = "idle"
    /\ \E symbol \in TwoSymbols, exists \in BOOLEAN :
          LockStep(p, [NoProc EXCEPT
              !.pc = "locks", !.op = "GetOrderBook", !.symbol = symbol,
              !.calls = GetOrderBookCalls(symbol, exists)])

\* Lock / RLock returns
Acquire(p) ==
    /\ WantsLock(p)
    /\ Grantable(p, Head(proc[p].calls))
    /\ LockStep(p, [proc[p] EXCEPT
           !.locks = @ \cup {[mu |-> Head(proc[p].calls).mu,
                              mode |-> Head(proc[p].calls).mode]},
           !.calls = Tail(@)])

\* Unlock / RUnlock
Release(p) ==
    /\ proc[p].pc = "locks"
    /\ proc[p].calls # <<>>
    /\ Head(proc[p].calls).do = "Unlock"
    /\ LockStep(p, [proc[p] EXCEPT
           !.locks = @ \ {[mu |-> Head(proc[p].calls).mu,
                           mode |-> Head(proc[p].calls).mode]},
           !.calls = Tail(@)])

\* the handler returns
CallReturn(p) ==
    /\ proc[p].pc = "locks"
    /\ proc[p].calls = <<>>
    /\ LockStep(p, NoProc)

NextLocks ==
    \E p \in ProcIds :
        \/ BeginSubmit(p)
        \/ BeginCancel(p)
        \/ BeginRead(p)
        \/ Acquire(p)
        \/ Release(p)
        \/ CallReturn(p)

SpecLocks == Init /\ [][NextLocks]_vars

----------------------------------------------------------------------------
(* GET /metrics between submits and cancels *)

\* ordersInBook += int64(len(orderBook.Orders)) over the books of symbols
RECURSIVE OrdersInBook(_, _)
OrdersInBook(books, symbols) ==
    IF symbols = {} THEN 0
    ELSE Cardinality(books[CHOOSE s \in symbols : TRUE].Orders)
           + OrdersInBook(books, symbols \ {CHOOSE s \in symbols : TRUE})

\* OrderHandler.Metrics: the sum over GetOrderBooksSnapshot()
Metrics ==
    /\ last' = [NoCall EXCEPT !.op = "Metrics",
                              !.OrdersInBook =
                                  OrdersInBook(OrderBooks, DOMAIN OrderBooks)]
    /\ UNCHANGED <<OrderBooks, ord, nextOrderID, hist, proc, batch, mw>>

\* SubmitOrder, with the orders MatchOrder refused kept apart
SubmitCounted ==
    /\ nextOrderID <= MaxOrders
    /\ \/ \E symbol \in Symbols, side \in Sides, price \in Prices,
             quantity \in Quantities :
               MatchOrder(symbol, side, "LIMIT", price, quantity)
       \/ \E symbol \in Symbols, side \in Sides, quantity \in Quantities :
               MatchOrder(symbol, side, "MARKET", 0, quantity)
    /\ hist' = [hist EXCEPT !.filled = @ \cup FilledBy(last', ord),
                            !.rejected = IF last'.err # ""
                                         THEN @ \cup {last'.id} ELSE @]
    /\ UNCHANGED <<proc, batch, mw>>

NextMetrics ==
    \/ SubmitCounted
    \/ HandleCancelOrder
    \/ Metrics

SpecMetrics == Init /\ [][NextMetrics]_vars

----------------------------------------------------------------------------
(* The rate limiter serving the clients while time passes *)

\* one more true for the client in the window
AllowedOnce(allowed, clientIP, window) ==
    [k \in (DOMAIN allowed) \cup {<<clientIP, window>>} |->
        IF k = <<clientIP, window>>
        THEN (IF k \in DOMAIN allowed THEN allowed[k] + 1 ELSE 1)
        ELSE allowed[k]]

AllowReturned(clientIP, r) ==
    /\ rl' = r.rl
    /\ hist' = [hist EXCEPT
           !.decision = [clientIP |-> clientIP, at |-> now, ok |-> r.ok],
           !.allowed = IF r.ok = "true"
                       THEN AllowedOnce(@, clientIP, WindowNumber(rl, now))
                       ELSE @]
    /\ UNCHANGED <<OrderBooks, ord, nextOrderID, last, proc, batch, sa, now>>

\* the middleware calls Allow for the client of a request
CallAllow ==
    \E clientIP \in Clients : AllowReturned(clientIP, Allow(rl, clientIP, now))

\* routes.go: RATE_LIMIT_WINDOW replaces the default of one second before
\* the first request is served
SetupRoutes ==
    /\ hist.decision = NoDecision
    /\ now = 0
    /\ \E windowDuration \in Durations :
          /\ windowDuration # rl.windowDuration
          /\ rl' = NewRateLimiter(windowDuration)
    /\ UNCHANGED <<OrderBooks, ord, nextOrderID, last, hist, proc, batch, sa, now>>

\* time passes
Tick ==
    /\ now < MaxTime
    /\ now' = now + 1
    /\ UNCHANGED <<OrderBooks, ord, nextOrderID, last, hist, proc, batch, rl, sa>>

NextLimiter ==
    \/ SetupRoutes
    \/ CallAllow
    \/ Tick

SpecLimiter == Init /\ [][NextLimiter]_vars

----------------------------------------------------------------------------
(* Requests in ServiceAvailability.Middleware at the same time.  Load and   *)
(* Add on inFlightRequests are two atomic operations with nothing between   *)
(* them that keeps other requests out.                                      *)

SaStep(state) ==
    /\ sa' = state
    /\ UNCHANGED <<OrderBooks, ord, nextOrderID, last, hist, proc, batch, rl, now>>

\* currentRequests >= sa.maxConcurrentRequests, when a limit is set
Overloaded(currentRequests) ==
    maxConcurrentRequests > 0 /\ currentRequests >= maxConcurrentRequests

\* the tests of the middleware: /health goes on to c.Next(), maintenance
\* mode and overload answer 503, any other request goes on to Add(1)
MiddlewareCheck(r) ==
    /\ sa.pc[r] = "none"
    /\ \E path \in {"/health", "/api/v1/orders"} :
          SaStep([sa EXCEPT !.pc[r] =
                     IF path = "/health" THEN "health"
                     ELSE IF sa.maintenanceMode THEN "unavailable"
                     ELSE IF Overloaded(sa.inFlightRequests) THEN "unavailable"
                     ELSE "loaded"])

\* sa.inFlightRequests.Add(1), then c.Next()
MiddlewareAdd(r) ==
    /\ sa.pc[r] = "loaded"
    /\ SaStep([sa EXCEPT !.pc[r] = "next",
                         !.inFlightRequests = @ + 1])

\* the handler returns: the deferred Add(-1) for a counted request
MiddlewareReturn(r) ==
    /\ sa.pc[r] \in {"next", "health", "unavailable"}
    /\ SaStep([sa EXCEPT !.pc[r] = "none",
                         !.inFlightRequests =
                             IF sa.pc[r] = "next" THEN @ - 1 ELSE @])

SetMaintenanceMode ==
    \E enabled \in BOOLEAN :
        /\ enabled # sa.maintenanceMode
        /\ SaStep([sa EXCEPT !.maintenanceMode = enabled])

NextAvailability ==
    \/ \E r \in RequestIds :
          \/ MiddlewareCheck(r)
          \/ MiddlewareAdd(r)
          \/ MiddlewareReturn(r)
    \/ SetMaintenanceMode

SpecAvailability == Init /\ [][NextAvailability]_vars

----------------------------------------------------------------------------
(* Properties *)

BookIds == DOMAIN OrderBooks

\* how often an id occurs in a queue, and in all queues of one price index
RECURSIVE CountIn(_, _)
CountIn(queue, id) ==
    IF queue = <<>> THEN 0
    ELSE (IF Head(queue) = id THEN 1 ELSE 0) + CountIn(Tail(queue), id)

RECURSIVE CountInTree(_, _)
CountInTree(tree, id) ==
    IF DOMAIN tree = {} THEN 0
    ELSE LET p == MinOf(DOMAIN tree)
         IN  CountIn(tree[p], id) + CountInTree(TreeDelete(tree, p), id)

\* the order ids a book holds, in its id-map or in a queue
HeldIds(ob) == ob.Orders \cup TreeIds(ob.Bids) \cup TreeIds(ob.Asks)

RECURSIVE SumQuantity(_)
SumQuantity(trades) ==
    IF trades = <<>> THEN 0
    ELSE Head(trades).Quantity + SumQuantity(Tail(trades))

LastIsMatch(orderType) ==
    /\ last.op = "MatchOrder"
    /\ last.order.Type = orderType

\* C1: every id of the id-map is in exactly one price-level queue, on the
\* order's own side at the order's own price, and every queued order is in
\* the id-map.
C1_IdMapAgreesWithQueues ==
    \A s \in BookIds :
        LET ob == OrderBooks[s]
        IN  /\ \A id \in ob.Orders :
                 /\ CountInTree(ob.Bids, id) + CountInTree(ob.Asks, id) = 1
                 /\ ord[id].Price \in DOMAIN TreeOf(ob, ord[id].Side)
                 /\ CountIn(TreeOf(ob, ord[id].Side)[ord[id].Price], id) = 1
            /\ TreeIds(ob.Bids) \cup TreeIds(ob.Asks) \subseteq ob.Orders

\* C2: no order with filled_quantity = quantity is reachable through GetOrder
\* (the id-map) or through a price-level queue.
C2_NoFilledOrderInBook ==
    \A s \in BookIds :
        \A id \in HeldIds(OrderBooks[s]) :
            ord[id].FilledQuantity # ord[id].Quantity

\* C3: every price level present in the bids or asks index has a non-empty
\* queue.
C3_NoEmptyLevel ==
    \A s \in BookIds :
        /\ \A p \in DOMAIN OrderBooks[s].Bids : OrderBooks[s].Bids[p] # <<>>
        /\ \A p \in DOMAIN OrderBooks[s].Asks : OrderBooks[s].Asks[p] # <<>>

\* a resting order of the side opposing the order, with remaining quantity,
\* whose price crosses the order's limit
CrossingLive(ob, order) ==
    {id \in HeldIds(ob) :
        /\ ord[id].Side = Opposing(order.Side)
        /\ RemainingQuantity(ord[id]) > 0
        /\ IF order.Side = "BUY" THEN ord[id].Price <= order.Price
           ELSE ord[id].Price >= order.Price}

\* C4: when a limit MatchOrder returns with remaining quantity > 0, the
\* opposing side holds no resting order with remaining quantity > 0 whose
\* price crosses the order's limit.
C4_LimitWalkExhaustsCrossing ==
    (LastIsMatch("LIMIT") /\ last.result.RemainingQuantity > 0)
        => CrossingLive(OrderBooks[last.order.Symbol], last.order) = {}

\* C5: a market MatchOrder that is not rejected fills the order completely:
\* status Filled, FilledQuantity = quantity, RemainingQuantity = 0, and the
\* trade quantities sum to the quantity.
C5_MarketFillsCompletely ==
    (LastIsMatch("MARKET") /\ last.err = "")
        => /\ last.result.Status = "FILLED"
           /\ last.result.FilledQuantity = last.order.Quantity
           /\ last.result.RemainingQuantity = 0
           /\ SumQuantity(last.result.Trades) = last.order.Quantity

\* a step that is a MatchOrder call for an order of this type
MatchStep(orderType) ==
    /\ nextOrderID' = nextOrderID + 1
    /\ last'.op = "MatchOrder"
    /\ last'.order.Type = orderType

\* the book of a symbol before the call (empty when the call creates it)
BookBefore(symbol) ==
    IF symbol \in DOMAIN OrderBooks THEN OrderBooks[symbol]
    ELSE NewOrderBook(symbol)

\* the remaining quantity of the queue positions 1..n of a level
RECURSIVE LevelRemaining(_, _)
LevelRemaining(queue, n) ==
    IF n = 0 THEN 0
    ELSE (ord[queue[n]].Quantity - ord[queue[n]].FilledQuantity)
           + LevelRemaining(queue, n - 1)

\* the remaining quantity summed over the levels of one side with price <= p
RECURSIVE SideRemaining(_, _)
SideRemaining(tree, p) ==
    IF p = 0 THEN 0
    ELSE (IF p \in DOMAIN tree THEN LevelRemaining(tree[p], Len(tree[p])) ELSE 0)
           + SideRemaining(tree, p - 1)

Liquidity(ob, side) == SideRemaining(TreeOf(ob, side), MaxPrice)

\* C6: a market MatchOrder whose quantity exceeds the remaining quantity
\* summed over all levels of the opposing side returns
\* InsufficientLiquidity(Requested = quantity, Available = that total), no
\* result and no trade, and leaves every book and every resting order as it
\* was.
C6_InsufficientLiquidityLeavesBook ==
    [][ LET order == last'.order
            available == Liquidity(BookBefore(order.Symbol), Opposing(order.Side))
        IN  (MatchStep("MARKET") /\ order.Quantity > available)
              => /\ last'.err = "InsufficientLiquidity"
                 /\ last'.Requested = order.Quantity
                 /\ last'.Available = available
                 /\ last'.result = NilResult
                 /\ \A s \in DOMAIN OrderBooks : OrderBooks'[s] = OrderBooks[s]
                 /\ \A s \in (DOMAIN OrderBooks') \ (DOMAIN OrderBooks) :
                        OrderBooks'[s] = NewOrderBook(s)
                 /\ ord' = ord
      ]_vars

\* a market order was rejected although the opposing side held some quantity
C6_Witness ==
    /\ LastIsMatch("MARKET")
    /\ last.err = "InsufficientLiquidity"
    /\ last.Available > 0
    /\ last.Requested > last.Available

\* the resting order a trade of this taker names
Maker(trade, taker) ==
    IF taker.Side = "BUY" THEN trade.SellOrderID ELSE trade.BuyOrderID

\* the quantity the trades 1..n took from the resting order id
RECURSIVE TakenBy(_, _, _, _)
TakenBy(trades, n, taker, id) ==
    IF n = 0 THEN 0
    ELSE (IF Maker(trades[n], taker) = id THEN trades[n].Quantity ELSE 0)
           + TakenBy(trades, n - 1, taker, id)

\* the orders the book held before the call on the side and at the price of
\* the order b, that were added before b
AddedBefore(ob, b) ==
    {a \in HeldIds(ob) : /\ a < b
                         /\ ord[a].Side = ord[b].Side
                         /\ ord[a].Price = ord[b].Price}

\* every trade of the call that takes quantity from a resting order b comes
\* after the trades that filled every order added before b at b's level
FifoRespected ==
    LET taker == last'.order
        trades == last'.result.Trades
        ob == BookBefore(taker.Symbol)
    IN  \A k \in 1..Len(trades) :
            LET b == Maker(trades[k], taker)
            IN  /\ b \in HeldIds(ob)
                /\ \A a \in AddedBefore(ob, b) :
                       TakenBy(trades, k - 1, taker, a)
                           = ord[a].Quantity - ord[a].FilledQuantity

\* a resting order the call filled only in part is at the head of its level
\* after the call
PartFilledStaysAtHead ==
    LET taker == last'.order
        trades == last'.result.Trades
        ob == OrderBooks'[taker.Symbol]
    IN  \A k \in 1..Len(trades) :
            LET r == Maker(trades[k], taker)
            IN  (r \in DOMAIN ord' /\ RemainingQuantity(ord'[r]) > 0)
                  => /\ LevelOrders(ob, ord'[r].Side, ord'[r].Price) # <<>>
                     /\ LevelOrders(ob, ord'[r].Side, ord'[r].Price)[1] = r

C8_MarketTimePriority ==
    [][ MatchStep("MARKET") => FifoRespected ]_vars

\* trade prices in best-price-first order for the taker
PricesBestFirst(trades, taker) ==
    \A i, j \in 1..Len(trades) :
        i < j => IF taker.Side = "BUY" THEN trades[i].Price <= trades[j].Price
                 ELSE trades[i].Price >= trades[j].Price

\* the orders the book held before the call on the opposing side at a price
\* strictly better for the taker than p
BetterPriced(ob, taker, p) ==
    {r \in HeldIds(ob) :
        /\ ord[r].Side = Opposing(taker.Side)
        /\ IF taker.Side = "BUY" THEN ord[r].Price < p ELSE ord[r].Price > p}

\* C9: the trades of one MatchOrder are in best-price-first order (prices
\* non-decreasing for a buy taker, non-increasing for a sell taker), and no
\* trade executes at a price while a resting order with remaining quantity
\* > 0 exists on the opposing side at a strictly better price.
C9_BestPriceFirst ==
    [][ (MatchStep("LIMIT") \/ MatchStep("MARKET"))
          => LET taker == last'.order
                 trades == last'.result.Trades
                 ob == BookBefore(taker.Symbol)
             IN  /\ PricesBestFirst(trades, taker)
                 /\ \A k \in 1..Len(trades) :
                      \A r \in BetterPriced(ob, taker, trades[k].Price) :
                          TakenBy(trades, k - 1, taker, r)
                              = ord[r].Quantity - ord[r].FilledQuantity
      ]_vars

\* C10: every trade has the limit price of the resting order it names, a
\* limit taker trades within its limit, and BuyOrderID / SellOrderID name
\* the buy-side and the sell-side order of the execution.
C10_TradeAtRestingPrice ==
    [][ (MatchStep("LIMIT") \/ MatchStep("MARKET"))
          => LET taker == last'.order
                 trades == last'.result.Trades
                 ob == BookBefore(taker.Symbol)
             IN  \A k \in 1..Len(trades) :
                   LET t == trades[k]
                       restingID == IF t.BuyOrderID = taker.ID THEN t.SellOrderID
                                    ELSE t.BuyOrderID
                   IN  /\ taker.ID \in {t.BuyOrderID, t.SellOrderID}
                       /\ restingID # taker.ID
                       /\ restingID \in HeldIds(ob)
                       /\ t.Price = ord[restingID].Price
                       /\ (IF t.BuyOrderID = taker.ID THEN taker.Side
                           ELSE ord[restingID].Side) = "BUY"
                       /\ (IF t.SellOrderID = taker.ID THEN taker.Side
                           ELSE ord[restingID].Side) = "SELL"
                       /\ taker.Type = "LIMIT"
                            => IF taker.Side = "BUY" THEN t.Price <= taker.Price
                               ELSE t.Price >= taker.Price
      ]_vars

\* a limit order traded at a resting price that is better than its limit
C10_Witness ==
    /\ LastIsMatch("LIMIT")
    /\ last.result.Trades # <<>>
    /\ last.result.Trades[1].Price # last.order.Price

\* the queue of the order's own side at its limit price, before and after
OwnQueueBefore(order) ==
    LevelOrders(BookBefore(order.Symbol), order.Side, order.Price)

OwnQueueAfter(order) ==
    LevelOrders(OrderBooks'[order.Symbol], order.Side, order.Price)

\* C11: for every limit MatchOrder, nothing filled gives status Accepted and
\* the order appended at the tail of the queue of its own side at its limit
\* price; 0 < filled < quantity gives PartialFill and the order at the tail
\* of that queue with remaining = quantity - filled; filled = quantity gives
\* Filled and the order is not inserted in the book.
C11_LimitResidualAtTail ==
    [][ MatchStep("LIMIT")
          => LET order == last'.order
                 filled == last'.result.FilledQuantity
             IN  /\ filled = 0
                      => /\ last'.result.Status = "ACCEPTED"
                         /\ OwnQueueAfter(order)
                              = Append(OwnQueueBefore(order), order.ID)
                         /\ order.ID \in OrderBooks'[order.Symbol].Orders
                         /\ RemainingQuantity(ord'[order.ID]) = order.Quantity
                 /\ (0 < filled /\ filled < order.Quantity)
                      => /\ last'.result.Status = "PARTIAL_FILL"
                         /\ OwnQueueAfter(order)
                              = Append(OwnQueueBefore(order), order.ID)
                         /\ order.ID \in OrderBooks'[order.Symbol].Orders
                         /\ RemainingQuantity(ord'[order.ID])
                              = order.Quantity - filled
                         /\ last'.result.RemainingQuantity
                              = order.Quantity - filled
                 /\ filled = order.Quantity
                      => /\ last'.result.Status = "FILLED"
                         /\ order.ID \notin HeldIds(OrderBooks'[order.Symbol])
                 /\ filled \in 0..order.Quantity
      ]_vars

\* a limit order was filled in part and its remainder rests in the queue of
\* its own level
C11_Witness ==
    /\ LastIsMatch("LIMIT")
    /\ last.result.Status = "PARTIAL_FILL"
    /\ last.result.FilledQuantity > 0
    /\ last.result.RemainingQuantity > 0
    /\ LevelOrders(OrderBooks[last.order.Symbol], last.order.Side,
                   last.order.Price) = <<last.id>>

\* a step that is a RemoveOrder call
RemoveStep == last'.op = "RemoveOrder" /\ UNCHANGED nextOrderID

\* C17: RemoveOrder(id) on an id that is not in the book returns false and
\* changes nothing; on a resting order that is Accepted or PartialFill it
\* returns true, removes the order from its queue and from the id-map, keeps
\* the relative order of the other orders of the queue, and removes the
\* price level when the queue became empty.
C17_RemoveOrderContract ==
    [][ RemoveStep
          => \A s \in DOMAIN OrderBooks :
               LET id == last'.id
                   ob == OrderBooks[s]
                   after == OrderBooks'[s]
               IN  /\ id \notin ob.Orders
                        => /\ last'.ret = FALSE
                           /\ OrderBooks' = OrderBooks
                           /\ ord' = ord
                   /\ (/\ id \in ob.Orders
                       /\ ord[id].Status \in {"ACCEPTED", "PARTIAL_FILL"})
                        => LET side == ord[id].Side
                               price == ord[id].Price
                               rest == RemoveFirst(LevelOrders(ob, side, price), id)
                           IN  /\ last'.ret = TRUE
                               /\ id \notin HeldIds(after)
                               /\ after.Orders = ob.Orders \ {id}
                               /\ LevelOrders(after, side, price) = rest
                               /\ (price \in DOMAIN TreeOf(after, side))
                                    <=> (rest # <<>>)
                               /\ \A q \in (DOMAIN TreeOf(ob, side)) \ {price} :
                                    /\ q \in DOMAIN TreeOf(after, side)
                                    /\ TreeOf(after, side)[q] = TreeOf(ob, side)[q]
                               /\ TreeOf(after, Opposing(side))
                                    = TreeOf(ob, Opposing(side))
      ]_vars

\* a step that serves a cancel request
CancelStep == last'.op = "CancelOrder" /\ UNCHANGED nextOrderID

\* C18: a cancel request for an order that matching has completely filled
\* is rejected with the already-filled error (400), not with not-found and
\* not with success, whatever the trade that completed it.
C18_CancelFilledIsRejected ==
    [][ (CancelStep /\ last'.id \in hist.filled)
          => last'.err = "AlreadyFilled" ]_vars

\* C19: with cancel requests served one at a time, after a cancel of an id
\* has succeeded every later cancel of that id returns not-found and changes
\* no book.
C19_SecondCancelNotFound ==
    [][ (CancelStep /\ last'.id \in hist.cancelled)
          => /\ last'.err = "NotFound"
             /\ OrderBooks' = OrderBooks
             /\ ord' = ord ]_vars

\* an id is cancelled again while other orders rest in the book
C19_Witness ==
    /\ last.op = "CancelOrder"
    /\ last.id \in hist.cancelled
    /\ last.err = "NotFound"
    /\ \E s \in BookIds : OrderBooks[s].Orders # {}

\* the opposing side has a price level the limit order crosses
Crosses(ob, order) ==
    \E p \in DOMAIN TreeOf(ob, Opposing(order.Side)) :
        IF order.Side = "BUY" THEN p <= order.Price ELSE p >= order.Price

\* the books after MatchOrder on the order, and the order objects
Admitted(order) ==
    LET books == GetOrCreateOrderBook(OrderBooks, order.Symbol)
        r == matchLimitOrder(books[order.Symbol], WithOrder(ord, order), order.ID)
    IN  [books |-> [books EXCEPT ![order.Symbol] = r.ob], ord |-> r.ord]

\* the response of a cancel request for the order right after its admission
AdmitThenCancel(order) ==
    CancelOrder(Admitted(order).books, Admitted(order).ord, order.ID)

\* C20: for every reachable book state and every limit order that does not
\* cross the opposing side, submitting the order and then cancelling it
\* yields a book equal to the book before the submit: the same price levels
\* on both sides, the same queues in the same order, the same id-map.
C20_AdmitThenCancel ==
    \A symbol \in Symbols, side \in Sides, price \in Prices,
       quantity \in Quantities :
        LET order == NewOrder(nextOrderID, symbol, side, "LIMIT", price, quantity)
        IN  ~Crosses(BookBefore(symbol), order)
              => /\ AdmitThenCancel(order).err = ""
                 /\ AdmitThenCancel(order).books[symbol] = BookBefore(symbol)

\* C12: under any interleaving of concurrent MatchOrder calls on one symbol,
\* every order has 0 <= filled_quantity <= quantity in every reachable state.
C12_FilledWithinQuantity ==
    \A id \in DOMAIN ord :
        /\ 0 <= ord[id].FilledQuantity
        /\ ord[id].FilledQuantity <= ord[id].Quantity

\* a MatchOrder call in progress that has filled resting orders and still
\* has quantity to place: further fills or the insertion of its residual
\* are yet to come
PartlyApplied(q) ==
    /\ proc[q].op = "MatchOrder"
    /\ Running(q)
    /\ proc[q].FilledQuantity > 0
    /\ proc[q].remainingQty > 0

\* the goroutine p reads a snapshot in this step
ReadStep(p) ==
    /\ CanBegin(p)
    /\ proc'[p].op = "GetOrderBookSnapshot"
    /\ proc'[p].pc = "done"
    /\ \A q \in ProcIds \ {p} : proc'[q] = proc[q]

\* C13: no read made by another caller while a MatchOrder is in progress
\* observes a book in which only part of that MatchOrder's changes (fills of
\* resting orders, their removal, removal of emptied levels, insertion of
\* the residual) have been applied.
C13_NoPartialObservation ==
    [][ \A p \in ProcIds :
          ReadStep(p) => \A q \in ProcIds \ {p} : ~PartlyApplied(q) ]_vars

\* the calls that ran together have all returned, and all were MatchOrder
BatchOfMatches ==
    /\ \A p \in ProcIds : proc[p].pc = "done" /\ proc[p].op = "MatchOrder"

\* MatchOrder run alone on the order of p, from the books and orders b
RunAlone(b, p) ==
    LET order == proc[p].order
        books == GetOrCreateOrderBook(b.books, order.Symbol)
        r == matchLimitOrder(books[order.Symbol], WithOrder(b.ord, order),
                             order.ID)
    IN  [books |-> [books EXCEPT ![order.Symbol] = r.ob],
         ord |-> Collect(r.ord, [books EXCEPT ![order.Symbol] = r.ob]),
         result |-> r.result]

\* what the call of p returned
ResultOf(p) ==
    [Status |-> proc[p].status, FilledQuantity |-> proc[p].FilledQuantity,
     RemainingQuantity |-> proc[p].remainingQty, Trades |-> proc[p].Trades]

\* the calls of p and then of q, one at a time from the start of the batch,
\* return what the two calls returned and leave the books and orders as
\* they are
SerialOrder(p, q) ==
    /\ RunAlone(batch, p).result = ResultOf(p)
    /\ RunAlone(RunAlone(batch, p), q).result = ResultOf(q)
    /\ RunAlone(RunAlone(batch, p), q).books = OrderBooks
    /\ RunAlone(RunAlone(batch, p), q).ord = ord

\* C14: for MatchOrder calls on one symbol that run concurrently, the
\* results returned and the final book are those of executing the same
\* calls one at a time in some order.
C14_Serializable ==
    BatchOfMatches => (SerialOrder(1, 2) \/ SerialOrder(2, 1))

\* a trade of the MatchOrder call of m names the order id
TradedWith(m, id) ==
    /\ proc[m].op = "MatchOrder"
    /\ \E k \in 1..Len(proc[m].Trades) :
          id \in {proc[m].Trades[k].BuyOrderID, proc[m].Trades[k].SellOrderID}

\* the order rested with remaining quantity when the calls began
RestedAtStart(id) ==
    /\ \E s \in DOMAIN batch.books : id \in batch.books[s].Orders
    /\ RemainingQuantity(batch.ord[id]) > 0

\* C15: when a cancel request and a MatchOrder that can fully fill the same
\* resting order run concurrently, exactly one of the two succeeds on that
\* order: never the cancel reporting Cancelled and a trade of the match
\* filling it, nor neither taking effect.
C15_CancelOrMatch ==
    \A c, m \in ProcIds :
        (/\ proc[c].pc = "done" /\ proc[c].op = "CancelOrder"
         /\ proc[m].pc = "done" /\ proc[m].op = "MatchOrder"
         /\ RestedAtStart(proc[c].id))
          => /\ ~(proc[c].status = "" /\ TradedWith(m, proc[c].id))
             /\ proc[c].status # "" => TradedWith(m, proc[c].id)

\* the call of p appends in this step a trade that names the order id
NewTradeNames(p, id) ==
    /\ proc'[p].op = "MatchOrder"
    /\ proc[p].op = "MatchOrder"
    /\ proc'[p].id = proc[p].id
    /\ Len(proc'[p].Trades) > Len(proc[p].Trades)
    /\ id \in {proc'[p].Trades[Len(proc'[p].Trades)].BuyOrderID,
               proc'[p].Trades[Len(proc'[p].Trades)].SellOrderID}

\* C16: under any interleaving of submits and cancels, once an order's
\* status is Filled or Cancelled, its status and its filled quantity never
\* change again and no later trade names it.
C16_TerminalIsFinal ==
    [][ \A id \in (DOMAIN ord) \cap (DOMAIN ord') :
          ord[id].Status \in {"FILLED", "CANCELLED"}
            => /\ ord'[id].Status = ord[id].Status
               /\ ord'[id].FilledQuantity = ord[id].FilledQuantity
               /\ \A p \in ProcIds : ~NewTradeNames(p, id)
      ]_vars

\* a step that is an AddOrder call for an id the book indexes
AddAgainStep ==
    /\ last'.op = "AddOrder"
    /\ UNCHANGED nextOrderID
    /\ \E s \in DOMAIN OrderBooks : last'.id \in OrderBooks[s].Orders

\* C21: adding an order whose id is already indexed in the book fails with
\* DuplicateOrder and leaves the book unchanged, so an order id never appears
\* twice in the price-level queues.
C21_DuplicateOrderRejected ==
    [][ AddAgainStep
          => /\ last'.err = "DuplicateOrder"
             /\ OrderBooks' = OrderBooks
             /\ \A s \in DOMAIN OrderBooks' :
                  CountInTree(OrderBooks'[s].Bids, last'.id)
                    + CountInTree(OrderBooks'[s].Asks, last'.id) <= 1
      ]_vars

\* the last call was a snapshot of the book of last.symbol
SnapshotTaken == last.op = "GetOrderBookSnapshot"

\* the levels of one side that have exactly k better levels on that side
RankedAt(tree, side, k) ==
    {price \in DOMAIN tree :
        Cardinality({q \in DOMAIN tree :
                        IF side = "BUY" THEN q > price ELSE q < price}) = k}

\* one side of a snapshot: at most depth entries and no fewer than the side
\* has levels up to depth, the i-th entry being the i-th best level with the
\* remaining quantity of the orders in its queue
SideAgrees(out, tree, side, depth) ==
    /\ Len(out) <= depth
    /\ Len(out) = IF Cardinality(DOMAIN tree) < depth
                  THEN Cardinality(DOMAIN tree) ELSE depth
    /\ \A i \in 1..Len(out) :
          /\ out[i].Price \in RankedAt(tree, side, i - 1)
          /\ out[i].Quantity = LevelRemaining(tree[out[i].Price],
                                               Len(tree[out[i].Price]))
    /\ \A i \in 1..(Len(out) - 1) :
          IF side = "BUY" THEN out[i].Price > out[i + 1].Price
          ELSE out[i].Price < out[i + 1].Price

\* C22: GetOrderBookSnapshot(depth) returns at most depth levels per side,
\* the best levels first, bids in strictly descending and asks in strictly
\* ascending price order, and the quantity of each returned level is the sum
\* of quantity - filled_quantity over the orders in that level's queue.
C22_SnapshotAgrees ==
    SnapshotTaken
      => /\ SideAgrees(last.bids, OrderBooks[last.symbol].Bids, "BUY",
                       last.depth)
         /\ SideAgrees(last.asks, OrderBooks[last.symbol].Asks, "SELL",
                       last.depth)

\* a snapshot of depth 1 of a book with two bid levels, one of them holding
\* a partly filled order
C22_Witness ==
    /\ SnapshotTaken
    /\ last.depth = 1
    /\ Cardinality(DOMAIN OrderBooks[last.symbol].Bids) = 2
    /\ Len(last.bids) = 1
    /\ \E id \in DOMAIN ord : ord[id].FilledQuantity > 0 /\ ~IsFilled(ord[id])
                              /\ ord[id].Side = "BUY"

\* C23: in every book state reachable by non-overlapping MatchOrder calls
\* and cancels, GetOrderBookSnapshot returns no level whose aggregate
\* quantity is 0.
C23_NoZeroLevelInSnapshot ==
    SnapshotTaken
      => /\ \A i \in 1..Len(last.bids) : last.bids[i].Quantity > 0
         /\ \A i \in 1..Len(last.asks) : last.asks[i].Quantity > 0

\* the prices of one side at which some order has remaining quantity
LivePrices(tree) ==
    {price \in DOMAIN tree : LevelRemaining(tree[price], Len(tree[price])) > 0}

\* what GetBestBid / GetBestAsk returned against the live orders of the side
BestAgrees(best, tree, side) ==
    IF LivePrices(tree) = {} THEN ~best.ok
    ELSE /\ best.ok
         /\ best.price = IF side = "BUY" THEN MaxOf(LivePrices(tree))
                         ELSE MinOf(LivePrices(tree))
         /\ best.quantity = LevelRemaining(tree[best.price],
                                           Len(tree[best.price]))

\* C24: in every reachable book state GetBestBid returns the highest price
\* among the bids with remaining quantity > 0 and the sum of the remaining
\* quantities at that price, GetBestAsk the lowest such ask likewise, and
\* each reports none only when its side holds no order with remaining
\* quantity > 0.
C24_BestIsBestLive ==
    \A s \in DOMAIN OrderBooks :
        /\ BestAgrees(GetBestBid(OrderBooks[s], ord), OrderBooks[s].Bids, "BUY")
        /\ BestAgrees(GetBestAsk(OrderBooks[s], ord), OrderBooks[s].Asks, "SELL")

\* every object GetOrCreateOrderBook has returned for one symbol is the same
OneInstancePerSymbol ==
    \A a \in hist.returned : \A b \in hist.returned :
        a[1] = b[1] => a[2] = b[2]

\* C25: under any interleaving of concurrent GetOrCreateOrderBook calls, all
\* calls for the same symbol return the same OrderBook instance, and an entry
\* of the symbol-to-book map is never replaced or removed once it is set.
C25_OneBookPerSymbol ==
    [][ /\ OneInstancePerSymbol'
        /\ \A s \in DOMAIN hist.instance :
              /\ s \in DOMAIN hist.instance'
              /\ hist.instance'[s] = hist.instance[s]
              /\ s \in DOMAIN OrderBooks'
      ]_vars

\* two calls for the same symbol both found it absent under RLock; one
\* created the book and the other found it under Lock
C25_Witness ==
    /\ proc[1].op = "GetOrCreateOrderBook"
    /\ proc[2].op = "GetOrCreateOrderBook"
    /\ proc[1].symbol = proc[2].symbol
    /\ proc[1].status = "created"
    /\ proc[2].status = "found under Lock"
    /\ proc[1].book = proc[2].book

\* a step that serves a POST request: the 400 of the validation, or a
\* MatchOrder call for the order made from the request
PostStep ==
    \/ last'.op = "SubmitOrder" /\ UNCHANGED nextOrderID
    \/ last'.op = "MatchOrder" /\ nextOrderID' = nextOrderID + 1

\* the request is refused and changes nothing
RefusedUnchanged ==
    /\ last'.op = "SubmitOrder"
    /\ last'.err # ""
    /\ UNCHANGED <<OrderBooks, ord, nextOrderID>>

InvalidRequest(req) ==
    \/ req.Symbol = ""
    \/ req.Side \notin {"BUY", "SELL"}
    \/ req.Type \notin {"LIMIT", "MARKET"}
    \/ req.Quantity <= 0
    \/ req.Type = "LIMIT" /\ req.Price <= 0

\* C27: a submit request with an empty symbol, a side other than BUY or
\* SELL, a type other than LIMIT or MARKET, a quantity <= 0, or type LIMIT
\* with price <= 0 is rejected before matching: no order book is created or
\* changed and no order is admitted.
C27_InvalidRequestRejected ==
    [][ (PostStep /\ InvalidRequest(hist'.req)) => RefusedUnchanged ]_vars

\* a request with quantity 0 was refused while an order rests in a book
C27_Witness ==
    /\ last.op = "SubmitOrder"
    /\ last.err # ""
    /\ hist.req.Symbol # ""
    /\ hist.req.Side = "SELL"
    /\ hist.req.Type = "MARKET"
    /\ hist.req.Quantity = 0
    /\ \E s \in DOMAIN OrderBooks : OrderBooks[s].Bids # <<>>

\* C28: a submit request of type MARKET that carries a non-zero price is
\* rejected as invalid input, without creating or changing any book.
C28_PricedMarketRejected ==
    [][ (PostStep /\ hist'.req.Type = "MARKET" /\ hist'.req.Price # 0)
          => RefusedUnchanged ]_vars

\* the step is a MatchOrder or a cancel for an order of another symbol than s
\* (a cancel that finds no order is for no symbol)
ForAnotherSymbol(s) ==
    \/ /\ last'.op = "MatchOrder"
       /\ nextOrderID' = nextOrderID + 1
       /\ last'.order.Symbol # s
    \/ /\ CancelStep
       /\ last'.id \in DOMAIN ord => ord[last'.id].Symbol # s

\* the book of s and its orders are what they were
BookUntouched(s) ==
    /\ s \in DOMAIN OrderBooks'
    /\ OrderBooks'[s] = OrderBooks[s]
    /\ \A id \in HeldIds(OrderBooks[s]) :
          id \in DOMAIN ord' /\ ord'[id] = ord[id]

\* C30: a MatchOrder or a cancel for an order of symbol S leaves the book of
\* every other symbol unchanged: its price indexes, its queues, its id-map
\* and the fill state of its orders.
C30_OtherBooksUnchanged ==
    [][ \A s \in DOMAIN OrderBooks : ForAnotherSymbol(s) => BookUntouched(s)
      ]_vars

\* a MatchOrder for GOOGL has traded while an order rests in the book of AAPL
C30_Witness ==
    /\ last.op = "MatchOrder"
    /\ last.order.Symbol = "GOOGL"
    /\ Len(last.result.Trades) > 0
    /\ "AAPL" \in DOMAIN OrderBooks
    /\ OrderBooks["AAPL"].Orders # {}
    /\ OrderBooks["AAPL"].Asks # <<>>

\* C29: every MatchOrder call (limit or market) and every cancel started on
\* any reachable book state terminates and returns a result or an error:
\* neither matching loop can iterate forever.
C29_CallsTerminate == Running(1) ~> (proc[1].pc = "done")

\* a market order has walked two resting orders and returned
C29_Witness ==
    /\ proc[1].pc = "done"
    /\ proc[1].op = "MatchOrder"
    /\ proc[1].order.Type = "MARKET"
    /\ Len(proc[1].Trades) = 2
    /\ proc[1].status = "FILLED"

\* the trades the call of p appends to its result in this step
AppendedBy(p) ==
    IF /\ proc'[p].op = "MatchOrder"
       /\ proc'[p].id = proc[p].id
       /\ Len(proc'[p].Trades) > Len(proc[p].Trades)
    THEN SubSeq(proc'[p].Trades, Len(proc[p].Trades) + 1, Len(proc'[p].Trades))
    ELSE <<>>

\* the quantity of the trades of this step that name the order id
TradedNow(id) == Taken(AppendedBy(1), id) + Taken(AppendedBy(2), id)

FilledBefore(id) == IF id \in DOMAIN ord THEN ord[id].FilledQuantity ELSE 0

\* C26: under any interleaving of concurrent submits, for every order the
\* filled quantity equals the sum of the quantities of all emitted trades
\* that name it as buy or sell order (so the filled quantities of all orders
\* sum to twice the traded volume): an order starts with nothing filled and
\* no trade, and every step raises its filled quantity by exactly the
\* quantity of the trades that step emits for it (an order object that no
\* book and no call refers to after the step has no filled quantity to read).
C26_FilledIsSumOfTrades ==
    [][ /\ \A id \in DOMAIN ord' :
              ord'[id].FilledQuantity = FilledBefore(id) + TradedNow(id)
        /\ \A id \in OrderIds \ (DOMAIN ord \cup DOMAIN ord') :
              TradedNow(id) = 0
      ]_vars

\* two calls in progress at the same time have each traded with the same
\* resting order
C26_Witness ==
    \E id \in DOMAIN ord :
        /\ proc[1].op = "MatchOrder"
        /\ proc[2].op = "MatchOrder"
        /\ id \notin {proc[1].id, proc[2].id}
        /\ Taken(proc[1].Trades, id) > 0
        /\ Taken(proc[2].Trades, id) > 0
        /\ ord[id].FilledQuantity
             = Taken(proc[1].Trades, id) + Taken(proc[2].Trades, id)

\* C31: after any sequence of non-overlapping MatchOrder calls and cancels
\* the book is not crossed: the highest price of a bid with remaining
\* quantity > 0 is strictly below the lowest price of an ask with remaining
\* quantity > 0.
C31_BookNotCrossed ==
    \A s \in DOMAIN OrderBooks :
        \A b \in LivePrices(OrderBooks[s].Bids) :
            \A a \in LivePrices(OrderBooks[s].Asks) : b < a

\* the last call was a MatchOrder that returned a result
ResultReturned == last.op = "MatchOrder" /\ last.err = ""

\* C32: for every MatchOrder that returns a result (limit or market),
\* FilledQuantity equals the sum of the quantities of the returned trades,
\* FilledQuantity + RemainingQuantity equals the order's quantity, every
\* returned trade has quantity > 0, and a PartialFill result has
\* FilledQuantity > 0 and RemainingQuantity > 0.
C32_ResultAddsUp ==
    ResultReturned
      => /\ last.result.FilledQuantity = SumQuantity(last.result.Trades)
         /\ last.result.FilledQuantity + last.result.RemainingQuantity
              = last.order.Quantity
         /\ \A i \in 1..Len(last.result.Trades) :
              last.result.Trades[i].Quantity > 0
         /\ last.result.Status = "PARTIAL_FILL"
              => /\ last.result.FilledQuantity > 0
                 /\ last.result.RemainingQuantity > 0

\* a limit order was partly filled by a trade and rests with the remainder
C32_Witness ==
    /\ ResultReturned
    /\ Len(last.result.Trades) = 1
    /\ last.result.Status = "PARTIAL_FILL"
    /\ last.result.FilledQuantity = 1
    /\ last.result.RemainingQuantity = 1

\* C33: after any sequence of operations no order of type Market is present
\* in any book's id-map or price-level queue, whether the market order was
\* filled or rejected.
C33_NoMarketOrderInBook ==
    \A s \in DOMAIN OrderBooks :
        \A id \in HeldIds(OrderBooks[s]) :
            ord[id].Type # "MARKET"

\* a market order was returned as filled with part of its quantity not
\* executed, and an order is left in the book
C33_Witness ==
    /\ ResultReturned
    /\ last.order.Type = "MARKET"
    /\ last.result.RemainingQuantity > 0
    /\ \E s \in DOMAIN OrderBooks : OrderBooks[s].Orders # {}

\* the step writes a price index, a queue or the id-map of an existing book
BookWritten ==
    \E s \in DOMAIN OrderBooks : OrderBooks'[s] # OrderBooks[s]

\* the step writes the filled quantity of an order
FilledWritten ==
    \E id \in DOMAIN ord \cap DOMAIN ord' :
        ord'[id].FilledQuantity # ord[id].FilledQuantity

\* C34: every read or write of a book's bids/asks index, id-map or
\* price-level queue, and every write to an order's filled_quantity, is
\* performed while the acting thread holds that book's lock (the write lock
\* for mutations), for every step of MatchOrder and cancel.
C34_WritesUnderLock ==
    [][ (BookWritten \/ FilledWritten) => LockHeld(proc[1]) = "Lock" ]_vars

\* a goroutine waits for a lock that another goroutine holds
WaitsFor(p, q) ==
    /\ WantsLock(p)
    /\ \E h \in proc[q].locks :
          /\ h.mu = Head(proc[p].calls).mu
          /\ ~(h.mode = "R" /\ Head(proc[p].calls).mode = "R")

\* C35: at every step of a submit, a cancel or a read a goroutine holds at
\* most one lock, and it holds none when it asks for one: the matcher's
\* lock is released before a book's lock is taken, the locks of two books
\* are never held together, and no goroutines wait for each other's locks
\* in a cycle.
C35_AtMostOneLock ==
    /\ \A p \in ProcIds :
          /\ Cardinality(proc[p].locks) <= 1
          /\ WantsLock(p) => proc[p].locks = {}
          /\ ~WaitsFor(p, p)
    /\ ~(WaitsFor(1, 2) /\ WaitsFor(2, 1))

\* a submit holds the book's lock for RemoveOrder or AddOrder while the
\* other goroutine, past the matcher's lock, waits for the same book
C35_Witness ==
    /\ proc[1].op = "SubmitOrder"
    /\ proc[1].locks = {[mu |-> Mutex("OrderBook.mu", "AAPL"), mode |-> "W"]}
    /\ WaitsFor(2, 1)
    /\ proc[2].op = "CancelOrder"

\* the submitted orders that are neither refused, filled nor cancelled: their
\* status is ACCEPTED or PARTIAL_FILL
ActiveOrders ==
    (1..(nextOrderID - 1)) \ (hist.rejected \cup hist.filled \cup hist.cancelled)

\* C36: after any sequence of submits and cancels that do not overlap, the
\* orders_in_book value of Metrics is the number of submitted orders whose
\* status is ACCEPTED or PARTIAL_FILL.
C36_OrdersInBookIsActive ==
    last.op = "Metrics" => last.OrdersInBook = Cardinality(ActiveOrders)

\* C37: in each window Allow returns true to each client at most
\* maxRequests times, whatever the order of the calls of the clients.
C37_AtMostMaxRequests ==
    \A k \in DOMAIN hist.allowed : hist.allowed[k] <= maxRequests

\* the counter of the client in the window, 0 when the map has no entry
CounterOf(counters, clientIP, window) ==
    IF clientIP \o <<"_">> \o Itoa(window) \in DOMAIN counters
    THEN counters[clientIP \o <<"_">> \o Itoa(window)]
    ELSE 0

\* C38: rate limiting is per client: a call of Allow for one client id
\* changes the counter of no other client id, whatever strings the ids are,
\* and so changes no decision another client receives.
C38_CountersPerClient ==
    [][rl'.counters # rl.counters =>
          \A clientIP \in Clients \ {hist'.decision.clientIP} :
             \A window \in 0..MaxTime :
                CounterOf(rl'.counters, clientIP, window)
                    = CounterOf(rl.counters, clientIP, window)]_vars

\* C39: for every window duration > 0, whole seconds or not, a request at
\* time t is counted in window floor(t / windowDuration), and Allow returns
\* a decision.
C39_WindowIsFloor ==
    hist.decision.ok # "none" =>
        /\ hist.decision.ok \in {"true", "false"}
        /\ WindowNumber(rl, hist.decision.at)
              = hist.decision.at \div rl.windowDuration

\* a window of a whole number of seconds is the window the code counts in
WholeSecondWindowIsFloor ==
    (hist.decision.ok # "none" /\ rl.windowDuration % TicksPerSecond = 0) =>
        /\ hist.decision.ok \in {"true", "false"}
        /\ WindowNumber(rl, hist.decision.at)
              = hist.decision.at \div rl.windowDuration

\* C40: with maxConcurrentRequests > 0 the number of requests that passed
\* the availability check and have not finished never exceeds
\* maxConcurrentRequests, and it is 0 when no request is in progress.
C40_InFlightBounded ==
    /\ sa.inFlightRequests <= maxConcurrentRequests
    /\ (\A r \in RequestIds : sa.pc[r] = "none") => sa.inFlightRequests = 0

\* inFlightRequests counts the requests between Add(1) and the deferred
\* Add(-1), so it is 0 when no request is in progress
InFlightIsCount ==
    sa.inFlightRequests = Cardinality({r \in RequestIds : sa.pc[r] = "next"})
====
